---- MODULE Spec2Model ----
(***************************************************************************)
(* Estroframe pharmacokinetic engine (src/analysis.py) and the application *)
(* operations that write the calibration-factor mapping.                   *)
(*                                                                         *)
(* Floating-point quantities are fixed-point integers:                     *)
(*   rates ka, ke          per hour,  scale RS  (1e-7 per hour)            *)
(*   exponentials          scale XS  (2^-15)                               *)
(*   concentrations        pg/mL,     scale CS  (0.01 pg/mL)               *)
(*   calibration factors   scale FS  (0.01)                                *)
(*   physiology modifiers  scale MS  (0.001)                               *)
(*   times                 milli-days (1 hour = 1000/24 milli-days)        *)
(*   half-life, t_peak     milli-hours                                     *)
(*   doses                 centi-milligrams                                *)
(***************************************************************************)
EXTENDS Integers, Sequences, FiniteSets, TLC

RS == 10^7
XS == 2^15
CS == 10^2
FS == 10^2
MS == 10^3
MaxInt == 2^30 + (2^30 - 1)

Abs(x) == IF x < 0 THEN -x ELSE x
Min2(a, b) == IF a < b THEN a ELSE b
Max2(a, b) == IF a > b THEN a ELSE b
Sgn(x) == IF x < 0 THEN -1 ELSE 1

(***************************************************************************)
(* Overflow-free floor(r*b/c) with remainder, for 0 <= r < c < 2^30 and    *)
(* b >= 0: long multiplication of r by the digits of b in base B, B the    *)
(* largest of 128, 16, 2 with c * (B + 1) <= MaxInt.                       *)
(***************************************************************************)
MulModBase(c) ==
    IF c <= MaxInt \div 129 THEN 128 ELSE IF c <= MaxInt \div 17 THEN 16 ELSE 2

\* q, d: quotient and remainder of the higher digits times the base; e: d
\* reduced, plus r times the lowest digit.
MulModCarry(q, d, e, c) == <<q + (d \div c) + (e \div c), e % c>>

MulModStep(r, b, c, B, h) ==
    MulModCarry(B * h[1], B * h[2], ((B * h[2]) % c) + r * (b % B), c)

RECURSIVE MulModQR(_, _, _)
MulModQR(r, b, c) ==
    IF r = 0 \/ b = 0 THEN <<0, 0>>
    ELSE IF b <= MaxInt \div r THEN <<(r * b) \div c, (r * b) % c>>
    ELSE MulModStep(r, b, c, MulModBase(c), MulModQR(r, b \div MulModBase(c), c))

MulDivNat(aa, bb, cc) == (aa \div cc) * bb + MulModQR(aa % cc, bb, cc)[1]

\* a*b/c on magnitudes, sign restored (truncation toward zero); c # 0.
MulDiv(a, b, c) == Sgn(a) * Sgn(b) * Sgn(c) * MulDivNat(Abs(a), Abs(b), Abs(c))

(***************************************************************************)
(* np.log on a positive rate (scale RS): binary range reduction and the    *)
(* series ln m = 2 atanh((m-1)/(m+1)).                                     *)
(***************************************************************************)
LN2_RS == 6931472

\* 1 + z2/3 + z2^2/5 + ... + z2^7/15 from term k on, in Horner form
RECURSIVE AtanhHorner(_, _)
AtanhHorner(z2, k) ==
    IF k = 7 THEN RS \div 15
    ELSE RS \div (2 * k + 1) + MulDiv(z2, AtanhHorner(z2, k + 1), RS)

AtanhSeries(z) == MulDiv(z, AtanhHorner(MulDiv(z, z, RS), 0), RS)

RECURSIVE Ln(_)
Ln(x) ==
    IF x >= 2 * RS THEN Ln(x \div 2) + LN2_RS
    ELSE IF x < RS THEN Ln(2 * x) - LN2_RS
    ELSE 2 * AtanhSeries(MulDiv(x - RS, RS, x + RS))

(***************************************************************************)
(* np.exp(-x) for x >= 0 (scale XS in, scale XS out): x = n ln2 + r,       *)
(* e^-x = 2^-n e^-r, e^-r by its Taylor polynomial in Horner form.         *)
(***************************************************************************)
LN2_XS == MulDiv(LN2_RS, XS, RS)

RECURSIVE Halve(_, _)
Halve(v, n) == IF n = 0 \/ v = 0 THEN v ELSE Halve(v \div 2, n - 1)

ExpNeg(x) ==
    LET n  == x \div LN2_XS
        r  == x % LN2_XS
        h8 == XS - (r \div 8)
        h7 == XS - (r * h8) \div (7 * XS)
        h6 == XS - (r * h7) \div (6 * XS)
        h5 == XS - (r * h6) \div (5 * XS)
        h4 == XS - (r * h5) \div (4 * XS)
        h3 == XS - (r * h4) \div (3 * XS)
        h2 == XS - (r * h3) \div (2 * XS)
        h1 == XS - (r * h2) \div XS
    IN  IF n >= 31 THEN 0 ELSE Halve(h1, n)

(***************************************************************************)
(* HormoneAnalyzer._solve_ka_newton / _get_ka_ke                           *)
(***************************************************************************)
KA_INSTANT == 100 * RS          \* return 100.0
KA_FLOOR == 100                 \* 1e-5
DELTA_EPS == 100                \* abs(delta) < 1e-5
FLIPFLOP_NUDGE == 100000        \* ke + 0.01
NEWTON_ITERS == 15              \* range(15)

\* ka = 1.0 / (t_peak / 2.5); if ka <= ke: ka = ke * 2.0
GuessAbove(ka0, ke) == IF ka0 <= ke THEN ke * 2 ELSE ka0

KaInitialGuess(t_peak, ke) == GuessAbove(MulDiv(RS, 2500, t_peak), ke)

\* F(ka) = t_peak * (ka - ke) - (np.log(ka) - np.log(ke))
NewtonF(t_peak, ke, ka) == MulDiv(t_peak, ka - ke, 1000) - (Ln(ka) - Ln(ke))

\* Mutant: the derivative without its 1 / ka term.
NewtonFPrime_NoReciprocal(t_peak, ka) == t_peak * (RS \div 1000)

\* F'(ka) = t_peak - 1.0 / ka
NewtonFPrime(t_peak, ka) == t_peak * (RS \div 1000) - MulDiv(RS, RS, ka)

\* ka -= delta; if abs(delta) < 1e-5: break
NewtonUpdate(ka, delta) ==
    [ka |-> ka - delta, brk |-> IF Abs(delta) < DELTA_EPS THEN "conv" ELSE "none"]

\* if abs(f_prime) < 1e-7: break; delta = f_val / f_prime
NewtonDivide(ka, f_val, f_prime) ==
    IF Abs(f_prime) < 1 THEN [ka |-> ka, brk |-> "deriv"]
    ELSE NewtonUpdate(ka, MulDiv(f_val, RS, f_prime))

\* One pass of the loop body: the clamp, F, F', the derivative break, the
\* update and the convergence break.
NewtonStep(t_peak, ke, kaIn) ==
    NewtonDivide(Max2(kaIn, KA_FLOOR),
                 NewtonF(t_peak, ke, Max2(kaIn, KA_FLOOR)),
                 NewtonFPrime(t_peak, Max2(kaIn, KA_FLOOR)))

\* if ka <= ke: ka = ke + 0.01
FlipFlopGuard(ka, ke) == IF ka <= ke THEN ke + FLIPFLOP_NUDGE ELSE ka

\* for _ in range(15): one pass s, then break or go round again
RECURSIVE NewtonLoop(_, _, _, _)
NewtonAfterStep(t_peak, ke, s, it) ==
    IF s.brk # "none" THEN [ka |-> s.ka, exit |-> s.brk, iters |-> it + 1]
    ELSE NewtonLoop(t_peak, ke, s.ka, it + 1)

NewtonLoop(t_peak, ke, ka, it) ==
    IF it = NEWTON_ITERS THEN [ka |-> ka, exit |-> "cap", iters |-> it]
    ELSE NewtonAfterStep(t_peak, ke, NewtonStep(t_peak, ke, ka), it)

\* Result with the exit path taken and the number of loop passes run.
GuardedResult(r, ke) ==
    [ka |-> FlipFlopGuard(r.ka, ke), exit |-> r.exit, iters |-> r.iters]

SolveKaTrace(t_peak, ke) ==
    IF t_peak <= 0 THEN [ka |-> KA_INSTANT, exit |-> "early", iters |-> 0]
    ELSE GuardedResult(NewtonLoop(t_peak, ke, KaInitialGuess(t_peak, ke), 0), ke)

SolveKaNewton(t_peak, ke) == SolveKaTrace(t_peak, ke).ka

\* ke = np.log(2) / half_life  (half_life in milli-hours)
KeOf(half_life) == MulDiv(LN2_RS, 1000, half_life)

KaKeFor(t_peak, ke) == [ka |-> SolveKaNewton(t_peak, ke), ke |-> ke]

GetKaKe(drug_info) == KaKeFor(drug_info.t_peak, KeOf(drug_info.half_life))

(***************************************************************************)
(* data.py: ROUTE_CONSTANTS and DRUG_DB (three of its records).            *)
(* half_life, t_peak in milli-hours; bioavailability, ester_factor x100.   *)
(***************************************************************************)
Routes == {"Injection", "Oral", "Transdermal", "Sublingual", "Anti-Androgen",
           "Progesterone", "GnRH-Agonist"}

ROUTE_CONSTANTS ==
    [r \in Routes |->
        CASE r = "Injection" -> 117
          [] r = "Oral" -> 12
          [] r = "Transdermal" -> 30
          [] r = "Anti-Androgen" -> 4
          [] r = "Sublingual" -> 12
          [] r = "Progesterone" -> 12
          [] r = "GnRH-Agonist" -> 117]

VD_DEFAULT == 4                 \* ROUTE_CONSTANTS.get(route_type, 4.0)

EV_DEPOT == "Estradiol Valerate (Progynon Depot)"
EV_ORAL == "Estradiol Valerate (Progynova)"
SPIRO == "Spironolactone"

DRUG_DB ==
    [n \in {EV_DEPOT, EV_ORAL, SPIRO} |->
        CASE n = EV_DEPOT ->
               [type |-> "Injection", half_life |-> 72000, t_peak |-> 36000,
                bioavailability |-> 100, ester_factor |-> 76]
          [] n = EV_ORAL ->
               [type |-> "Oral", half_life |-> 14000, t_peak |-> 6000,
                bioavailability |-> 5, ester_factor |-> 76]
          [] n = SPIRO ->
               [type |-> "Anti-Androgen", half_life |-> 2000, t_peak |-> 1000,
                bioavailability |-> 100, ester_factor |-> 100]]

(***************************************************************************)
(* HormoneAnalyzer.__init__ and the physiology modifiers.                  *)
(* weight kg, height cm, age years, ast/alt U/L, body_fat %; bmi x100.     *)
(***************************************************************************)
\* Mutant: the weight is taken as given (no 30 kg floor).
HormoneAnalyzer_NoWeightFloor(user_weight, user_age, ast, alt, body_fat, user_height) ==
    LET weight == user_weight
        height == Max2(user_height, 100)
    IN  [weight |-> weight, height |-> height, age |-> user_age,
         ast |-> ast, alt |-> alt, body_fat |-> body_fat,
         bmi |-> (weight * 1000000) \div (height * height)]

HormoneAnalyzer(user_weight, user_age, ast, alt, body_fat, user_height) ==
    LET weight == Max2(user_weight, 30)
        height == Max2(user_height, 100)
    IN  [weight |-> weight, height |-> height, age |-> user_age,
         ast |-> ast, alt |-> alt, body_fat |-> body_fat,
         bmi |-> (weight * 1000000) \div (height * height)]

Clip(x, lo, hi) == IF x < lo THEN lo ELSE IF x > hi THEN hi ELSE x

LIVER_LIMIT == 40

\* Mutant: without the cap 'min(factor, 1.2)'.
GetLiverMetabolismFactor_Uncapped(self) ==
    IF self.ast > LIVER_LIMIT \/ self.alt > LIVER_LIMIT
    THEN MS + (Max2(self.ast, self.alt) - LIVER_LIMIT) * 2
    ELSE MS

GetLiverMetabolismFactor(self) ==
    IF self.ast > LIVER_LIMIT \/ self.alt > LIVER_LIMIT
    THEN Min2(MS + (Max2(self.ast, self.alt) - LIVER_LIMIT) * 2, 1200)
    ELSE MS

GetBodyFatAdjustment(self) == Clip(MS + (self.body_fat - 22) * 8, 800, 1500)

GetBmiAdjustment(self) == Clip(MS + MulDiv(self.bmi - 2200, 1, 10), 900, 1300)

GetFirstPassAdjustment(self, route_type) ==
    IF route_type \in {"Oral", "Anti-Androgen"}
    THEN Clip(MS + (self.age - 25) * 2, 850, 1150)
    ELSE MS

(***************************************************************************)
(* HormoneAnalyzer.bateman_function at one time-since-dose t (milli-days). *)
(***************************************************************************)
KA_EQ_NUDGE == 100              \* ka = ke + 1e-5

\* k * t, k per hour (scale RS), t in milli-days; result scale XS.
RateTimesT(k, t) == MulDiv(k, MulDiv(t * 24, XS, 1000), RS)

\* Mutant: without the absorption term np.exp(-ka * t).
BatemanFunction_NoAbsorption(self, t, dose, kaIn, ke, f, ester_factor, route_type) ==
    LET vd_const == IF route_type \in DOMAIN ROUTE_CONSTANTS
                    THEN ROUTE_CONSTANTS[route_type] ELSE VD_DEFAULT
        fat_mod == GetBodyFatAdjustment(self)
        bmi_mod == GetBmiAdjustment(self)
        \* current_total_volume, scale 10
        volume10 == (((self.weight * vd_const * fat_mod) \div 100) * bmi_mod) \div MS
        first_pass_mod == GetFirstPassAdjustment(self, route_type)
        liver_func_mod == GetLiverMetabolismFactor(self)
        \* adjusted_f, scale 100 * MS * MS
        adjusted_f == f * first_pass_mod * liver_func_mod
        \* effective_dose_ng, in ng
        effective_dose_ng == MulDiv(dose * ester_factor, adjusted_f, 1000000)
        ka == IF kaIn = ke THEN ke + KA_EQ_NUDGE ELSE kaIn
        diff == ExpNeg(RateTimesT(ke, t))
        base == MulDiv(effective_dose_ng, CS * 10, volume10)
        conc == MulDiv(MulDiv(base, diff, XS), ka, ka - ke)
    IN  Max2(conc, 0)

BatemanFunction(self, t, dose, kaIn, ke, f, ester_factor, route_type) ==
    LET vd_const == IF route_type \in DOMAIN ROUTE_CONSTANTS
                    THEN ROUTE_CONSTANTS[route_type] ELSE VD_DEFAULT
        fat_mod == GetBodyFatAdjustment(self)
        bmi_mod == GetBmiAdjustment(self)
        \* current_total_volume, scale 10
        volume10 == (((self.weight * vd_const * fat_mod) \div 100) * bmi_mod) \div MS
        first_pass_mod == GetFirstPassAdjustment(self, route_type)
        liver_func_mod == GetLiverMetabolismFactor(self)
        \* adjusted_f, scale 100 * MS * MS
        adjusted_f == f * first_pass_mod * liver_func_mod
        \* effective_dose_ng, in ng
        effective_dose_ng == MulDiv(dose * ester_factor, adjusted_f, 1000000)
        ka == IF kaIn = ke THEN ke + KA_EQ_NUDGE ELSE kaIn
        diff == ExpNeg(RateTimesT(ke, t)) - ExpNeg(RateTimesT(ka, t))
        base == MulDiv(effective_dose_ng, CS * 10, volume10)
        conc == MulDiv(MulDiv(base, diff, XS), ka, ka - ke)
    IN  Max2(conc, 0)

(***************************************************************************)
(* HormoneAnalyzer.simulate_schedule                                       *)
(*                                                                         *)
(* A schedule entry is a record; 'name', 'dose', 'interval' are read with  *)
(* item[...] (KeyError when absent), the others with item.get.  interval   *)
(* and offset are in milli-days, duration and days in tenths of a day,     *)
(* stop/resume days are whole days.  An optional argument is <<>> (None)   *)
(* or <<v>>.  A calibration mapping is a function on a set of routes.      *)
(***************************************************************************)
INTERVAL_MIN == 10              \* interval_days < 0.01
DAY == 1000                     \* one day (24 hours) in milli-days

ItemGet(item, key, default) == IF key \in DOMAIN item THEN item[key] ELSE default

\* calibration_factors.get(route_type, 1.0)
CfGet(calibration_factors, route_type) ==
    IF route_type \in DOMAIN calibration_factors
    THEN calibration_factors[route_type] ELSE FS

\* int(x) of a float given in tenths: truncation toward zero
IntOfTenths(x) == Sgn(x) * (Abs(x) \div 10)

RECURSIVE SumSeq(_)
SumSeq(s) == IF s = <<>> THEN 0 ELSE Head(s) + SumSeq(Tail(s))

RECURSIVE Flatten(_)
Flatten(ss) == IF ss = <<>> THEN <<>> ELSE Head(ss) \o Flatten(Tail(ss))

\* total_hours = days * 24, in milli-days (days in tenths of a day)
TotalTime(days) == days * (DAY \div 10)

\* Mutant: one sample more, 'int(days * resolution) + 1'.
NumPoints_PlusOne(days, resolution) == IntOfTenths(days * resolution) + 1

\* num_points = int(days * resolution)
NumPoints(days, resolution) == IntOfTenths(days * resolution)

\* np.linspace(0, total, num_points)[i], 1-based i, in milli-days
GridTime(i, total, num_points) ==
    IF num_points = 1 THEN 0 ELSE ((i - 1) * total) \div (num_points - 1)

\* Mutant: the horizon itself among the cycle starts,
\* np.arange(0, total_hours + step, step).
CycleStarts_Inclusive(total, interval) ==
    LET n == IF total < 0 THEN 0 ELSE total \div interval + 1
    IN  [k \in 1..n |-> (k - 1) * interval]

\* np.arange(0, total_hours, interval_days * 24)
CycleStarts(total, interval) ==
    LET n == IF total <= 0 THEN 0 ELSE (total + interval - 1) \div interval
    IN  [k \in 1..n |-> (k - 1) * interval]

\* Mutant: without the check 'if dose_time < total_hours'.
GenerateDoseTimes_Unbounded(item, total) ==
    LET interval == item["interval"]
        is_cycling == ItemGet(item, "is_cycling", FALSE)
        offset == ItemGet(item, "offset", 0)
        duration == IntOfTenths(ItemGet(item, "duration", 10))
        starts == CycleStarts(total, interval)
        Expand(start_time) ==
            [d \in 1..duration |-> start_time + offset + (d - 1) * DAY]
    IN  IF is_cycling
        THEN Flatten([k \in 1..Len(starts) |-> Expand(starts[k])])
        ELSE starts

\* The dose times generated for one entry, before cessation.
GenerateDoseTimes(item, total) ==
    LET interval == item["interval"]
        is_cycling == ItemGet(item, "is_cycling", FALSE)
        offset == ItemGet(item, "offset", 0)
        duration == IntOfTenths(ItemGet(item, "duration", 10))
        starts == CycleStarts(total, interval)
        Keep(dt) == dt < total
        Expand(start_time) ==
            SelectSeq([d \in 1..duration |-> start_time + offset + (d - 1) * DAY], Keep)
    IN  IF is_cycling
        THEN Flatten([k \in 1..Len(starts) |-> Expand(starts[k])])
        ELSE starts

\* Mutant: the stop boundary excluded ('dt < stop_day * 24').
ApplyCessation_StrictStop(all_dose_times, stop_day, resume_day) ==
    LET KeepBoth(dt) == dt < stop_day[1] * DAY \/ dt >= resume_day[1] * DAY
        KeepStop(dt) == dt < stop_day[1] * DAY
    IN  IF stop_day # <<>>
        THEN IF resume_day # <<>>
             THEN SelectSeq(all_dose_times, KeepBoth)
             ELSE SelectSeq(all_dose_times, KeepStop)
        ELSE all_dose_times

\* Mutant: stop_day without effect when no resume_day is given.
ApplyCessation_StopNeedsResume(all_dose_times, stop_day, resume_day) ==
    LET KeepBoth(dt) == dt <= stop_day[1] * DAY \/ dt >= resume_day[1] * DAY
    IN  IF stop_day # <<>> /\ resume_day # <<>>
        THEN SelectSeq(all_dose_times, KeepBoth)
        ELSE all_dose_times

\* The stop_day / resume_day filter.
ApplyCessation(all_dose_times, stop_day, resume_day) ==
    LET KeepBoth(dt) == dt <= stop_day[1] * DAY \/ dt >= resume_day[1] * DAY
        KeepStop(dt) == dt <= stop_day[1] * DAY
    IN  IF stop_day # <<>>
        THEN IF resume_day # <<>>
             THEN SelectSeq(all_dose_times, KeepBoth)
             ELSE SelectSeq(all_dose_times, KeepStop)
        ELSE all_dose_times

\* The entries the loop does not 'continue' past.
EntryAccepted(item) ==
    /\ ~(item["interval"] < INTERVAL_MIN)
    /\ item["name"] \in DOMAIN DRUG_DB

RequiredFields == {"name", "dose", "interval"}
EntryWellFormed(item) == RequiredFields \subseteq DOMAIN item

\* Mutant: 'total_conc[valid_mask] = conc * cf', the last contribution wins.
Superpose_Assign(contribs) ==
    IF contribs = <<>> THEN 0 ELSE contribs[Len(contribs)]

\* total_conc[valid_mask] += conc * cf, over a sequence of contributions
Superpose(contribs) == SumSeq(contribs)

\* The loop body up to the cessation filter: the locals of one entry, or
\* the mark of an entry the loop 'continue's past.
SkippedEntry == [skipped |-> TRUE, all_dose_times |-> <<>>]

AcceptedEntry(dose, drug_info, k, calibration_factors, all_dose_times) ==
    [skipped |-> FALSE,
     dose |-> dose,
     route_type |-> drug_info.type,
     cf |-> CfGet(calibration_factors, drug_info.type),
     ka |-> k.ka, ke |-> k.ke,
     f |-> drug_info.bioavailability,
     ef |-> drug_info.ester_factor,
     all_dose_times |-> all_dose_times]

PrepareEntry(item, total, calibration_factors, stop_day, resume_day) ==
    IF ~EntryAccepted(item) THEN SkippedEntry
    ELSE AcceptedEntry(item["dose"], DRUG_DB[item["name"]],
                       GetKaKe(DRUG_DB[item["name"]]), calibration_factors,
                       ApplyCessation(GenerateDoseTimes(item, total),
                                      stop_day, resume_day))

\* Mutants: 'break' in place of 'continue' at an unknown drug key, and at
\* an interval below the floor.
RECURSIVE PrepareEntries_BreakOnUnknown(_, _, _, _, _)
PrepareEntries_BreakOnUnknown(schedule_list, total, calibration_factors, stop_day, resume_day) ==
    IF schedule_list = <<>> THEN <<>>
    ELSE IF ~(Head(schedule_list)["interval"] < INTERVAL_MIN)
            /\ Head(schedule_list)["name"] \notin DOMAIN DRUG_DB
    THEN [n \in 1..Len(schedule_list) |-> SkippedEntry]
    ELSE <<PrepareEntry(Head(schedule_list), total, calibration_factors,
                        stop_day, resume_day)>>
         \o PrepareEntries_BreakOnUnknown(Tail(schedule_list), total,
                                          calibration_factors, stop_day, resume_day)

RECURSIVE PrepareEntries_BreakOnSmallInterval(_, _, _, _, _)
PrepareEntries_BreakOnSmallInterval(schedule_list, total, calibration_factors, stop_day, resume_day) ==
    IF schedule_list = <<>> THEN <<>>
    ELSE IF Head(schedule_list)["interval"] < INTERVAL_MIN
    THEN [n \in 1..Len(schedule_list) |-> SkippedEntry]
    ELSE <<PrepareEntry(Head(schedule_list), total, calibration_factors,
                        stop_day, resume_day)>>
         \o PrepareEntries_BreakOnSmallInterval(Tail(schedule_list), total,
                                                calibration_factors, stop_day,
                                                resume_day)

RECURSIVE PrepareEntries(_, _, _, _, _)
PrepareEntries(schedule_list, total, calibration_factors, stop_day, resume_day) ==
    IF schedule_list = <<>> THEN <<>>
    ELSE <<PrepareEntry(Head(schedule_list), total, calibration_factors,
                        stop_day, resume_day)>>
         \o PrepareEntries(Tail(schedule_list), total, calibration_factors,
                           stop_day, resume_day)

\* What one entry adds at grid point i: the sum over its retained dose
\* times with shifted_t >= 0 of bateman(shifted_t) * cf.
EntryConcAt(self, e, i, total, num_points) ==
    LET den == IF num_points = 1 THEN 1 ELSE num_points - 1
        Shifted(dt) == (i - 1) * total - dt * den
        Add(dt) ==
            IF Shifted(dt) >= 0
            THEN MulDiv(BatemanFunction(self, Shifted(dt) \div den, e.dose,
                                        e.ka, e.ke, e.f, e.ef, e.route_type),
                        e.cf, FS)
            ELSE 0
    IN  Superpose([j \in 1..Len(e.all_dose_times) |-> Add(e.all_dose_times[j])])

\* The grid and the superposition loop over the prepared entries.
SimulateEntries(self, entries, total, num_points) ==
    [status |-> "ok",
     t |-> [i \in 1..num_points |-> GridTime(i, total, num_points)],
     c |-> [i \in 1..num_points |->
              Superpose([n \in 1..Len(entries) |->
                  EntryConcAt(self, entries[n], i, total, num_points)])],
     doses |-> [n \in 1..Len(entries) |-> entries[n].all_dose_times]]

Raised(e) == [status |-> e, t |-> <<>>, c |-> <<>>, doses |-> <<>>]

SimulateSchedule(self, schedule_list, days, resolution, calibration_factors, stop_day, resume_day) ==
    IF NumPoints(days, resolution) < 0 THEN Raised("ValueError")
    ELSE IF schedule_list = <<>>
    THEN SimulateEntries(self, <<>>, TotalTime(days), NumPoints(days, resolution))
    ELSE IF \E n \in 1..Len(schedule_list) : ~EntryWellFormed(schedule_list[n])
    THEN Raised("KeyError")
    ELSE SimulateEntries(self,
                         PrepareEntries(schedule_list, TotalTime(days),
                                        calibration_factors, stop_day, resume_day),
                         TotalTime(days), NumPoints(days, resolution))

(***************************************************************************)
(* HormoneAnalyzer.calculate_calibration_factor                            *)
(* lab_day in tenths of a day, lab_value in pg/mL (scale CS).              *)
(***************************************************************************)
FACTOR_NEUTRAL == 100           \* return 1.0
FACTOR_MIN == 10                \* np.clip(new_factor, 0.1, ...)
FACTOR_MAX == 500               \* np.clip(new_factor, ..., 5.0)
TARGET_CONC_MIN == 10           \* conc_target < 0.1
CAL_RESOLUTION == 24            \* resolution=24
WINDOW_BEFORE == 500            \* lab_day - 0.5
WINDOW_AFTER == 100             \* lab_day + 0.1

RouteOf(item) == DRUG_DB[item["name"]].type

\* Index (1-based) of the first minimum of f over the non-empty index set S.
ArgMin(f, S) ==
    CHOOSE i \in S : /\ \A j \in S : f[i] <= f[j]
                     /\ \A j \in S : (f[j] = f[i]) => i <= j

CalReturn(k, idx, fallback, conc_other, conc_target) ==
    [status |-> "ok", factor |-> k, idx |-> idx, fallback |-> fallback,
     conc_other |-> conc_other, conc_target |-> conc_target]

CalRaise(e) == [status |-> e, factor |-> 0, idx |-> 0, fallback |-> FALSE,
                conc_other |-> 0, conc_target |-> 0]

\* Mutant: the guard at 'conc_target < 0', so that a zero target
\* concentration reaches the division (numpy: x / 0.0 is +-inf, clipped).
FactorFromConcs_NegativeGuard(lab_value, conc_other, conc_target, idx, fallback) ==
    IF conc_target < 0
    THEN CalReturn(FACTOR_NEUTRAL, idx, fallback, conc_other, conc_target)
    ELSE IF conc_target = 0
    THEN CalReturn(IF lab_value - conc_other >= 0 THEN FACTOR_MAX ELSE FACTOR_MIN,
                   idx, fallback, conc_other, conc_target)
    ELSE CalReturn(Clip(MulDiv(lab_value - conc_other, FS, conc_target),
                        FACTOR_MIN, FACTOR_MAX),
                   idx, fallback, conc_other, conc_target)

\* Mutant: the other routes' concentration is not subtracted.
FactorFromConcs_IgnoreOther(lab_value, conc_other, conc_target, idx, fallback) ==
    IF conc_target < TARGET_CONC_MIN
    THEN CalReturn(FACTOR_NEUTRAL, idx, fallback, conc_other, conc_target)
    ELSE CalReturn(Clip(MulDiv(lab_value, FS, conc_target), FACTOR_MIN, FACTOR_MAX),
                   idx, fallback, conc_other, conc_target)

\* if conc_target < 0.1: return 1.0; else the clipped ratio
FactorFromConcs(lab_value, conc_other, conc_target, idx, fallback) ==
    IF conc_target < TARGET_CONC_MIN
    THEN CalReturn(FACTOR_NEUTRAL, idx, fallback, conc_other, conc_target)
    ELSE CalReturn(Clip(MulDiv(lab_value - conc_other, FS, conc_target),
                        FACTOR_MIN, FACTOR_MAX),
                   idx, fallback, conc_other, conc_target)

\* window_mask, over the n grid points of t_sim (grid time i is
\* (i - 1) * total / den)
TroughWindow(n, total, den, lab_day) ==
    {i \in 1..n : /\ (i - 1) * total >= Max2(0, lab_day * (DAY \div 10) - WINDOW_BEFORE) * den
                  /\ (i - 1) * total <= (lab_day * (DAY \div 10) + WINDOW_AFTER) * den}

\* The trough of c_total inside the window, or without one the grid point
\* nearest to lab_day.
SampleIndex(window, c_other, c_target, n, total, den, lab_day) ==
    IF window # {}
    THEN ArgMin([i \in 1..n |-> c_other[i] + c_target[i]], window)
    ELSE ArgMin([i \in 1..n |-> Abs((i - 1) * total - lab_day * (DAY \div 10) * den)],
                1..n)

FactorAtIndex(lab_value, c_other, c_target, idx, fallback) ==
    FactorFromConcs(lab_value, c_other[idx], c_target[idx], idx, fallback)

FactorFromCurves(lab_day, lab_value, other, target, n, total, den) ==
    IF other.status # "ok" THEN CalRaise(other.status)
    ELSE IF target.status # "ok" THEN CalRaise(target.status)
    ELSE IF n = 0 THEN CalRaise("ValueError")
    ELSE FactorAtIndex(lab_value, other.c, target.c,
                       SampleIndex(TroughWindow(n, total, den, lab_day),
                                   other.c, target.c, n, total, den, lab_day),
                       TroughWindow(n, total, den, lab_day) = {})

\* calc_factors = current_factors.copy(); calc_factors[target_route] = 1.0
CalcFactors(current_factors, target_route) ==
    [r \in DOMAIN current_factors \cup {target_route} |->
        IF r = target_route THEN FACTOR_NEUTRAL ELSE current_factors[r]]

\* The entries of a known drug whose route is (is_target) or is not the
\* target route.
RouteSchedule(schedule_list, target_route, is_target) ==
    SelectSeq(schedule_list,
              LAMBDA d : /\ d["name"] \in DOMAIN DRUG_DB
                         /\ (RouteOf(d) = target_route) = is_target)

\* Mutant: the target route simulated with the caller's mapping instead of
\* {target_route: 1.0}.
CalculateCalibrationFactor_TargetScaled(self, schedule_list, lab_day, lab_value, target_route, current_factors) ==
    IF lab_value <= 0 THEN CalReturn(FACTOR_NEUTRAL, 0, FALSE, 0, 0)
    ELSE IF \E k \in 1..Len(schedule_list) : "name" \notin DOMAIN schedule_list[k]
    THEN CalRaise("KeyError")
    ELSE FactorFromCurves(
             lab_day, lab_value,
             SimulateSchedule(self, RouteSchedule(schedule_list, target_route, FALSE),
                              lab_day + 10, CAL_RESOLUTION,
                              CalcFactors(current_factors, target_route), <<>>, <<>>),
             SimulateSchedule(self, RouteSchedule(schedule_list, target_route, TRUE),
                              lab_day + 10, CAL_RESOLUTION,
                              current_factors, <<>>, <<>>),
             Max2(NumPoints(lab_day + 10, CAL_RESOLUTION), 0),
             TotalTime(lab_day + 10),
             Max2(NumPoints(lab_day + 10, CAL_RESOLUTION) - 1, 1))

\* Mutant: the first guard lets a lab value of exactly 0 through.
CalculateCalibrationFactor_StrictGuard(self, schedule_list, lab_day, lab_value, target_route, current_factors) ==
    IF lab_value < 0 THEN CalReturn(FACTOR_NEUTRAL, 0, FALSE, 0, 0)
    ELSE IF \E k \in 1..Len(schedule_list) : "name" \notin DOMAIN schedule_list[k]
    THEN CalRaise("KeyError")
    ELSE FactorFromCurves(
             lab_day, lab_value,
             SimulateSchedule(self, RouteSchedule(schedule_list, target_route, FALSE),
                              lab_day + 10, CAL_RESOLUTION,
                              CalcFactors(current_factors, target_route), <<>>, <<>>),
             SimulateSchedule(self, RouteSchedule(schedule_list, target_route, TRUE),
                              lab_day + 10, CAL_RESOLUTION,
                              [r \in {target_route} |-> FACTOR_NEUTRAL], <<>>, <<>>),
             Max2(NumPoints(lab_day + 10, CAL_RESOLUTION), 0),
             TotalTime(lab_day + 10),
             Max2(NumPoints(lab_day + 10, CAL_RESOLUTION) - 1, 1))

CalculateCalibrationFactor(self, schedule_list, lab_day, lab_value, target_route, current_factors) ==
    IF lab_value <= 0 THEN CalReturn(FACTOR_NEUTRAL, 0, FALSE, 0, 0)
    ELSE IF \E k \in 1..Len(schedule_list) : "name" \notin DOMAIN schedule_list[k]
    THEN CalRaise("KeyError")
    ELSE FactorFromCurves(
             lab_day, lab_value,
             SimulateSchedule(self, RouteSchedule(schedule_list, target_route, FALSE),
                              lab_day + 10, CAL_RESOLUTION,
                              CalcFactors(current_factors, target_route), <<>>, <<>>),
             SimulateSchedule(self, RouteSchedule(schedule_list, target_route, TRUE),
                              lab_day + 10, CAL_RESOLUTION,
                              [r \in {target_route} |-> FACTOR_NEUTRAL], <<>>, <<>>),
             Max2(NumPoints(lab_day + 10, CAL_RESOLUTION), 0),
             TotalTime(lab_day + 10),
             Max2(NumPoints(lab_day + 10, CAL_RESOLUTION) - 1, 1))

WEIGHT_DAYS == 14               \* record['day'] / 14.0

\* np.exp(day / 14.0), scaled by XS; day in tenths of a day
ExpWeight(day) ==
    LET x == MulDiv(Abs(day), XS, 10 * WEIGHT_DAYS)
    IN  IF day >= 0 THEN (XS * XS) \div ExpNeg(x) ELSE ExpNeg(x)

FirstFailure(k) ==
    CHOOSE j \in DOMAIN k : k[j].status # "ok" /\ \A j2 \in 1..(j - 1) : k[j2].status = "ok"

\* Mutant: the plain mean, np.average(factors).
WeightedAverage_Unweighted(k, weights) ==
    IF \E j \in DOMAIN k : k[j].status # "ok"
    THEN [status |-> k[FirstFailure(k)].status, factor |-> 0]
    ELSE [status |-> "ok",
          factor |-> SumSeq([j \in DOMAIN k |-> k[j].factor]) \div Len(k)]

\* np.average(factors, weights=weights), or the first exception raised in
\* the loop
WeightedAverage(k, weights) ==
    IF \E j \in DOMAIN k : k[j].status # "ok"
    THEN [status |-> k[FirstFailure(k)].status, factor |-> 0]
    ELSE [status |-> "ok",
          factor |-> SumSeq([j \in DOMAIN k |-> k[j].factor * weights[j]])
                     \div SumSeq(weights)]

RECURSIVE FactorsOf(_, _, _, _, _)
FactorsOf(self, schedule_list, lab_history, target_route, current_factors) ==
    IF lab_history = <<>> THEN <<>>
    ELSE <<CalculateCalibrationFactor(self, schedule_list, Head(lab_history).day,
                                      Head(lab_history).value, target_route,
                                      current_factors)>>
         \o FactorsOf(self, schedule_list, Tail(lab_history), target_route,
                      current_factors)

CalculateWeightedCalibrationFactor(self, schedule_list, lab_history, target_route, current_factors) ==
    IF lab_history = <<>> THEN [status |-> "ok", factor |-> FACTOR_NEUTRAL]
    ELSE WeightedAverage(
             FactorsOf(self, schedule_list, lab_history, target_route, current_factors),
             [j \in 1..Len(lab_history) |-> ExpWeight(lab_history[j].day)])

(***************************************************************************)
(* State.                                                                  *)
(*   ka_st  one run of _solve_ka_newton, statement by statement            *)
(*   sim    one comparison of simulate_schedule on A, B and A followed     *)
(*          by B, with its arguments; under SpecDose the frame of one      *)
(*          invocation, stepped dose by dose                               *)
(*   cal    one call of calculate_calibration_factor, with its arguments;  *)
(*          under SpecWeighted one call of the weighted estimate           *)
(*   app    the session state of the application: drug_schedule,           *)
(*          calibration_factors and lab_history                            *)
(*   mem    one engine call on the caller's objects: the heap and the      *)
(*          references its frame holds                                     *)
(*   analyzer  the HormoneAnalyzer built from a profile; under SpecThr the *)
(*          one cached instance the invocations share                      *)
(*   thr    two interleaved invocations of simulate_schedule               *)
(*   bat    one evaluation of bateman_function, with its arguments         *)
(*   store  the import of data.py: the raw records and DRUG_DB so far      *)
(***************************************************************************)
VARIABLES ka_st, sim, cal, app, mem, analyzer, thr, bat, store

vars == <<ka_st, sim, cal, app, mem, analyzer, thr, bat, store>>

Idle == [pc |-> "idle"]

DefaultAnalyzer == HormoneAnalyzer(60, 25, 20, 20, 22, 170)

(***************************************************************************)
(* The absorption solver as a state machine.                               *)
(***************************************************************************)
HalfLives == {100, 1000, 2000, 14000, 72000, 336000}
TPeaks == {-1000, 0, 144, 1000, 1443, 3000, 6000, 36000}
\* a 0.005 h half-life (ke = 138.6 per hour) with instantaneous absorption
KaInputs ==
    {in \in HalfLives \X TPeaks : in[2] <= 3 * in[1]} \cup {<<5, 0>>, <<5, -1000>>}

KaInit ==
    /\ ka_st \in {[pc |-> "start", half_life |-> in[1], t_peak |-> in[2],
                   ke |-> KeOf(in[1]), ka |-> 0, it |-> 0, exit |-> "none"] :
                  in \in KaInputs}
    /\ sim = Idle /\ cal = Idle /\ app = Idle /\ mem = Idle /\ analyzer = Idle /\ thr = Idle /\ bat = Idle /\ store = Idle

\* Mutant: the instantaneous-absorption value passes through the final
\* flip-flop guard instead of being returned at once.
KaEarlyReturn_ThroughGuard ==
    /\ ka_st.pc = "start"
    /\ ka_st.t_peak <= 0
    /\ ka_st' = [ka_st EXCEPT !.pc = "guard", !.ka = KA_INSTANT, !.exit = "early"]
    /\ UNCHANGED <<sim, cal, app, mem, analyzer, thr, bat, store>>

KaEarlyReturn ==
    /\ ka_st.pc = "start"
    /\ ka_st.t_peak <= 0
    /\ ka_st' = [ka_st EXCEPT !.pc = "done", !.ka = KA_INSTANT, !.exit = "early"]
    /\ UNCHANGED <<sim, cal, app, mem, analyzer, thr, bat, store>>

KaGuess ==
    /\ ka_st.pc = "start"
    /\ ka_st.t_peak > 0
    /\ ka_st' = [ka_st EXCEPT !.pc = "loop",
                              !.ka = KaInitialGuess(ka_st.t_peak, ka_st.ke)]
    /\ UNCHANGED <<sim, cal, app, mem, analyzer, thr, bat, store>>

KaIterate ==
    /\ ka_st.pc = "loop"
    /\ ka_st.it < NEWTON_ITERS
    /\ LET s == NewtonStep(ka_st.t_peak, ka_st.ke, ka_st.ka)
       IN  ka_st' = [ka_st EXCEPT !.ka = s.ka, !.it = @ + 1,
                                  !.pc = IF s.brk = "none" THEN "loop" ELSE "guard",
                                  !.exit = s.brk]
    /\ UNCHANGED <<sim, cal, app, mem, analyzer, thr, bat, store>>

KaCap ==
    /\ ka_st.pc = "loop"
    /\ ka_st.it = NEWTON_ITERS
    /\ ka_st' = [ka_st EXCEPT !.pc = "guard", !.exit = "cap"]
    /\ UNCHANGED <<sim, cal, app, mem, analyzer, thr, bat, store>>

KaGuard ==
    /\ ka_st.pc = "guard"
    /\ ka_st' = [ka_st EXCEPT !.pc = "done", !.ka = FlipFlopGuard(ka_st.ka, ka_st.ke)]
    /\ UNCHANGED <<sim, cal, app, mem, analyzer, thr, bat, store>>

KaNext == KaEarlyReturn \/ KaGuess \/ KaIterate \/ KaCap \/ KaGuard

SpecKa == KaInit /\ [][KaNext]_vars

(***************************************************************************)
(* simulate_schedule on bounded arguments.                                 *)
(***************************************************************************)
MaxDays == 2
MaxResolution == 2
MaxStopDay == 1
MaxResumeDay == 2

UNKNOWN_DRUG == "Unknown Drug"

ItemDepot == [name |-> EV_DEPOT, dose |-> 1000, interval |-> 1000]
ItemOral == [name |-> EV_ORAL, dose |-> 200, interval |-> 500]
ItemOralCycling ==
    [name |-> EV_ORAL, dose |-> 200, interval |-> 1000, is_cycling |-> TRUE,
     offset |-> 250, duration |-> 25]
ItemUnknown == [name |-> UNKNOWN_DRUG, dose |-> 100, interval |-> 1000]
ItemTiny == [name |-> EV_ORAL, dose |-> 200, interval |-> 9]
ItemZero == [name |-> EV_DEPOT, dose |-> 1000, interval |-> 0]
ItemNegative == [name |-> EV_ORAL, dose |-> 200, interval |-> -1000]
ItemNoInterval == [name |-> EV_DEPOT, dose |-> 1000]

SchedulesA ==
    {<<>>, <<ItemDepot>>, <<ItemOralCycling>>, <<ItemDepot, ItemUnknown>>,
     <<ItemZero, ItemDepot>>, <<ItemNoInterval>>}
SchedulesB ==
    {<<>>, <<ItemOral>>, <<ItemUnknown>>, <<ItemTiny>>, <<ItemNegative, ItemOral>>}

SimDays == {-10, 0, 25} \cup {10 * d : d \in 1..MaxDays}
SimResolutions == 1..MaxResolution
StopDays == {<<>>} \cup {<<d>> : d \in 1..MaxStopDay}
ResumeDays == {<<>>} \cup {<<d>> : d \in 1..MaxResumeDay}
SimFactors == {<<>>, [r \in {"Injection", "Oral"} |-> IF r = "Oral" THEN 50 ELSE 200]}

SimInit ==
    /\ sim \in {[pc |-> "args", a |-> a, b |-> b, days |-> d, resolution |-> res,
                 calibration_factors |-> cf, stop_day |-> sd, resume_day |-> rd] :
                a \in SchedulesA, b \in SchedulesB, d \in SimDays,
                res \in SimResolutions, cf \in SimFactors, sd \in StopDays,
                rd \in ResumeDays}
    /\ ka_st = Idle /\ cal = Idle /\ app = Idle /\ mem = Idle /\ analyzer = Idle /\ thr = Idle /\ bat = Idle /\ store = Idle

Run(schedule_list) ==
    SimulateSchedule(DefaultAnalyzer, schedule_list, sim.days, sim.resolution,
                     sim.calibration_factors, sim.stop_day, sim.resume_day)

\* simulate_schedule runs on A, B and A followed by B.
\* The three results beside the arguments they were computed from.
Compared(ra, rb, rab) ==
    [pc |-> IF rab.status = "ok" THEN "returned" ELSE "raised",
     a |-> sim.a, b |-> sim.b, days |-> sim.days, resolution |-> sim.resolution,
     calibration_factors |-> sim.calibration_factors,
     stop_day |-> sim.stop_day, resume_day |-> sim.resume_day,
     ra |-> ra, rb |-> rb, rab |-> rab]

Simulate ==
    /\ sim.pc = "args"
    /\ sim' = Compared(Run(sim.a), Run(sim.b), Run(sim.a \o sim.b))
    /\ UNCHANGED <<ka_st, cal, app, mem, analyzer, thr, bat, store>>

SimNext == Simulate

SpecSim == SimInit /\ [][SimNext]_vars

(***************************************************************************)
(* calculate_calibration_factor on bounded arguments.                      *)
(***************************************************************************)
MaxLabDay == 1

CalSchedules ==
    {<<>>, <<ItemDepot>>, <<ItemDepot, ItemOral>>, <<ItemUnknown, ItemOral>>,
     <<ItemNoInterval>>}
CalLabDays == {-20, -10, -5, 0, 5} \cup {10 * d : d \in 1..MaxLabDay}
CalLabValues == {-100, 0, 1, 5000, 20000, 1000000}
CalRoutes == {"Injection", "Oral"}

CalInit ==
    /\ cal \in {[pc |-> "args", schedule_list |-> sl, lab_day |-> ld,
                 lab_value |-> lv, target_route |-> tr, current_factors |-> cf] :
                sl \in CalSchedules, ld \in CalLabDays, lv \in CalLabValues,
                tr \in CalRoutes, cf \in SimFactors}
    /\ ka_st = Idle /\ sim = Idle /\ app = Idle /\ mem = Idle /\ analyzer = Idle /\ thr = Idle /\ bat = Idle /\ store = Idle

\* The result beside the arguments it was computed from.
Calibrated(r) ==
    [pc |-> IF r.status = "ok" THEN "returned" ELSE "raised",
     schedule_list |-> cal.schedule_list, lab_day |-> cal.lab_day,
     lab_value |-> cal.lab_value, target_route |-> cal.target_route,
     current_factors |-> cal.current_factors, r |-> r]

Calibrate ==
    /\ cal.pc = "args"
    /\ cal' = Calibrated(CalculateCalibrationFactor(
                             DefaultAnalyzer, cal.schedule_list, cal.lab_day,
                             cal.lab_value, cal.target_route, cal.current_factors))
    /\ UNCHANGED <<ka_st, sim, app, mem, analyzer, thr, bat, store>>

CalNext == Calibrate

SpecCal == CalInit /\ [][CalNext]_vars

(***************************************************************************)
(* The calibration tab's use of the estimate: the factor returned is       *)
(* stored for the target route and the estimate is run again.              *)
(***************************************************************************)
\* calibration_factors[target_route] = new_k, and the estimate run again
\* on the same schedule and lab record with the mapping so updated.
Reapplied(first, factors) ==
    [pc |-> "reapplied",
     schedule_list |-> cal.schedule_list, lab_day |-> cal.lab_day,
     lab_value |-> cal.lab_value, target_route |-> cal.target_route,
     current_factors |-> factors, first |-> first,
     r |-> CalculateCalibrationFactor(DefaultAnalyzer, cal.schedule_list,
                                      cal.lab_day, cal.lab_value,
                                      cal.target_route, factors)]

Reapply ==
    /\ cal.pc = "returned"
    /\ cal' = Reapplied(cal.r, [r \in DOMAIN cal.current_factors \cup {cal.target_route} |->
                                  IF r = cal.target_route THEN cal.r.factor
                                  ELSE cal.current_factors[r]])
    /\ UNCHANGED <<ka_st, sim, app, mem, analyzer, thr, bat, store>>

ReapplyNext ==
    \/ Calibrate
    \/ Reapply

SpecReapply == CalInit /\ [][ReapplyNext]_vars

(***************************************************************************)
(* The application session: schedule editor, calibration tab, patient      *)
(* load and session import.                                                *)
(***************************************************************************)
\* A lab value read off the current simulation: the total that
\* simulate_schedule yields with the current mapping, at the sample the
\* calibration selects for the lab day, fed back to the calibration.
TroughSchedules ==
    {<<ItemDepot>>, <<ItemOral>>, <<ItemDepot, ItemOral>>, <<ItemUnknown, ItemOral>>,
     <<ItemOral, ItemOral>>}
TroughLabDays == {0, 5} \cup {10 * d : d \in 1..MaxLabDay}
TroughFactors ==
    SimFactors \cup {[r \in {"Injection", "Oral"} |-> FACTOR_NEUTRAL],
                     [r \in {"Injection", "Oral"} |-> IF r = "Oral" THEN 600 ELSE 5],
                     [r \in {"Oral"} |-> 300]}

TroughInit ==
    /\ cal \in {[pc |-> "measure", schedule_list |-> sl, lab_day |-> ld,
                 lab_value |-> 0, target_route |-> tr, current_factors |-> cf] :
                sl \in TroughSchedules, ld \in TroughLabDays,
                tr \in CalRoutes, cf \in TroughFactors}
    /\ ka_st = Idle /\ sim = Idle /\ app = Idle /\ mem = Idle
    /\ analyzer = Idle /\ thr = Idle /\ bat = Idle /\ store = Idle

\* total_conc[idx] of simulate_schedule(schedule_list, lab_day + 1, 24,
\* current_factors), idx the sample the calibration reads
TroughAt(current, probe) ==
    IF probe.status = "ok" /\ current.status = "ok" /\ probe.idx > 0
    THEN current.c[probe.idx] ELSE 0

MeasureTrough ==
    /\ cal.pc = "measure"
    /\ cal' = [cal EXCEPT
                 !.pc = "args",
                 !.lab_value =
                     TroughAt(SimulateSchedule(DefaultAnalyzer, cal.schedule_list,
                                               cal.lab_day + 10, CAL_RESOLUTION,
                                               cal.current_factors, <<>>, <<>>),
                              CalculateCalibrationFactor(
                                  DefaultAnalyzer, cal.schedule_list, cal.lab_day, 1,
                                  cal.target_route, cal.current_factors))]
    /\ UNCHANGED <<ka_st, sim, app, mem, analyzer, thr, bat, store>>

TroughNext ==
    \/ MeasureTrough
    \/ Calibrate

SpecTrough == TroughInit /\ [][TroughNext]_vars

MaxSchedule == 1
MaxLabRecords == 2

DefaultFactors ==
    [r \in {"Injection", "Oral", "Transdermal", "Sublingual"} |-> FACTOR_NEUTRAL]

\* The entry the schedule editor builds from its widgets (without its id).
NewDrug(name, dose, interval) ==
    [name |-> name, type |-> DRUG_DB[name].type, dose |-> dose,
     interval |-> interval, is_cycling |-> FALSE, offset |-> 0, duration |-> 10]

NewDrugs == {NewDrug(EV_DEPOT, 1000, 1000), NewDrug(EV_ORAL, 200, 500)}
LabDays == {-10, 10}
LabValues == {0, 20000}

LabGet(lab_history, route) ==
    IF route \in DOMAIN lab_history THEN lab_history[route] ELSE <<>>

MapSet(m, key, value) ==
    [r \in DOMAIN m \cup {key} |-> IF r = key THEN value ELSE m[r]]

\* list.sort(key=lambda x: x['day']), a stable sort
InsertByDay(sorted, last) ==
    SelectSeq(sorted, LAMBDA x : x.day <= last.day) \o <<last>>
    \o SelectSeq(sorted, LAMBDA x : x.day > last.day)

RECURSIVE SortByDay(_)
SortByDay(records) ==
    IF records = <<>> THEN <<>>
    ELSE InsertByDay(SortByDay(SubSeq(records, 1, Len(records) - 1)),
                     records[Len(records)])

RemoveAt(s, i) == SubSeq(s, 1, i - 1) \o SubSeq(s, i + 1, Len(s))

ActiveRoutes(drug_schedule) ==
    {RouteOf(drug_schedule[n]) :
        n \in {m \in 1..Len(drug_schedule) :
                  drug_schedule[m]["name"] \in DOMAIN DRUG_DB}}

\* Files a user can upload: a session export, a hand-edited one, a partial one.
SessionFiles ==
    {[drug_schedule |-> <<ItemDepot>>,
      calibration_factors |-> [r \in {"Injection"} |-> 120],
      lab_history |-> [r \in {"Injection"} |-> <<[day |-> 10, value |-> 20000]>>]],
     [calibration_factors |-> [r \in {"Injection"} |-> 1000]],
     [drug_schedule |-> <<ItemOral>>, calibration_factors |-> <<>>]}

PatientDb ==
    {[schedule |-> <<ItemDepot>>,
      calibration_factors |-> [r \in {"Injection"} |-> 80],
      lab_history |-> [r \in {"Injection"} |-> <<[day |-> 10, value |-> 20000]>>]],
     [schedule |-> <<ItemOral>>,
      calibration_factors |-> [r \in {"Oral"} |-> 5]],
     [schedule |-> <<ItemDepot>>]}

NormalizePatientPayload(raw) ==
    [schedule |-> ItemGet(raw, "schedule", <<>>),
     calibration_factors |-> ItemGet(raw, "calibration_factors", <<>>),
     lab_history |-> ItemGet(raw, "lab_history", <<>>)]

AppInit ==
    /\ app = [drug_schedule |-> <<>>, calibration_factors |-> DefaultFactors,
              lab_history |-> <<>>]
    /\ ka_st = Idle /\ sim = Idle /\ cal = Idle /\ mem = Idle /\ analyzer = Idle /\ thr = Idle /\ bat = Idle /\ store = Idle

AddDrug(new_drug) ==
    /\ Len(app.drug_schedule) < MaxSchedule
    /\ app' = [app EXCEPT !.drug_schedule = Append(@, new_drug)]
    /\ UNCHANGED <<ka_st, sim, cal, mem, analyzer, thr, bat, store>>

DeleteDrug(i) ==
    /\ i \in 1..Len(app.drug_schedule)
    /\ app' = [app EXCEPT !.drug_schedule = RemoveAt(@, i)]
    /\ UNCHANGED <<ka_st, sim, cal, mem, analyzer, thr, bat, store>>

\* Recompute the weighted factor of target_route from its records and store
\* it; an exception leaves calibration_factors as it was.
Stored(lab_history, target_route, new_k) ==
    [app EXCEPT !.lab_history = lab_history,
                !.calibration_factors =
                    IF new_k.status = "ok"
                    THEN MapSet(@, target_route, new_k.factor) ELSE @]

Recalibrated(lab_history, target_route) ==
    Stored(lab_history, target_route,
           CalculateWeightedCalibrationFactor(
               DefaultAnalyzer, app.drug_schedule, lab_history[target_route],
               target_route, app.calibration_factors))

AddLabRecord(target_route, lab_day, lab_val) ==
    /\ target_route \in ActiveRoutes(app.drug_schedule)
    /\ Len(LabGet(app.lab_history, target_route)) < MaxLabRecords
    /\ IF lab_val <= 0
       THEN UNCHANGED app
       ELSE app' = Recalibrated(
                       MapSet(app.lab_history, target_route,
                              SortByDay(Append(LabGet(app.lab_history, target_route),
                                               [day |-> lab_day, value |-> lab_val]))),
                       target_route)
    /\ UNCHANGED <<ka_st, sim, cal, mem, analyzer, thr, bat, store>>

DeleteLabRecord(target_route, i) ==
    /\ target_route \in ActiveRoutes(app.drug_schedule)
    /\ i \in 1..Len(LabGet(app.lab_history, target_route))
    /\ app' = Recalibrated(MapSet(app.lab_history, target_route,
                                  RemoveAt(app.lab_history[target_route], i)),
                           target_route)
    /\ UNCHANGED <<ka_st, sim, cal, mem, analyzer, thr, bat, store>>

ResetCalibration ==
    /\ app' = [app EXCEPT !.calibration_factors = DefaultFactors, !.lab_history = <<>>]
    /\ UNCHANGED <<ka_st, sim, cal, mem, analyzer, thr, bat, store>>

LoadPatient(raw_data) ==
    LET data_to_load == NormalizePatientPayload(raw_data)
        calib == data_to_load.calibration_factors
    IN  /\ app' = [drug_schedule |-> data_to_load.schedule,
                    calibration_factors |->
                        IF DOMAIN calib # {} THEN calib ELSE DefaultFactors,
                    lab_history |-> data_to_load.lab_history]
        /\ UNCHANGED <<ka_st, sim, cal, mem, analyzer, thr, bat, store>>

ImportSession(full_state) ==
    /\ app' = [k \in DOMAIN app |->
                   IF k \in DOMAIN full_state THEN full_state[k] ELSE app[k]]
    /\ UNCHANGED <<ka_st, sim, cal, mem, analyzer, thr, bat, store>>

AppNext ==
    \/ \E new_drug \in NewDrugs : AddDrug(new_drug)
    \/ \E i \in 1..MaxSchedule : DeleteDrug(i)
    \/ \E target_route \in Routes, lab_day \in LabDays, lab_val \in LabValues :
          AddLabRecord(target_route, lab_day, lab_val)
    \/ \E target_route \in Routes, i \in 1..MaxLabRecords :
          DeleteLabRecord(target_route, i)
    \/ ResetCalibration
    \/ \E raw_data \in PatientDb : LoadPatient(raw_data)
    \/ \E full_state \in SessionFiles : ImportSession(full_state)

Spec == AppInit /\ [][AppNext]_vars

(***************************************************************************)
(* The engine's calls on objects of the caller.  A Python list or dict is  *)
(* an object of the heap, named by a reference; an argument is a reference *)
(* and an item assignment writes the object every holder of the reference  *)
(* sees.  mem follows one call of simulate_schedule,                       *)
(* calculate_calibration_factor or calculate_weighted_calibration_factor   *)
(* statement by statement: the heap, the references the frame holds and    *)
(* the heap as the caller left it (before).                                *)
(***************************************************************************)
Ref(kind, n) == <<kind, n>>
NONE == Ref("None", 0)

\* A new object of the heap.
Alloc(heap, ref, value) ==
    [r \in DOMAIN heap \cup {ref} |-> IF r = ref THEN value ELSE heap[r]]

\* d[key] = value on the dict object ref
SetItem(heap, ref, key, value) == [heap EXCEPT ![ref] = MapSet(@, key, value)]

\* Mutant: 'calc_factors = current_factors', an alias in place of a copy.
DictCopy_Alias(heap, src, dst) == [heap |-> heap, ref |-> src]

\* src.copy(): a new dict object dst holding the items of src
DictCopy(heap, src, dst) == [heap |-> Alloc(heap, dst, heap[src]), ref |-> dst]

\* The values of the objects a list object refers to.
ListOf(heap, ref) == [n \in 1..Len(heap[ref]) |-> heap[heap[ref][n]]]

\* [d for d in schedule_list if ...]: a new list of the same entry objects
RouteRefs(heap, schedule_list, target_route, is_target) ==
    SelectSeq(heap[schedule_list],
              LAMBDA d : /\ heap[d]["name"] \in DOMAIN DRUG_DB
                         /\ (RouteOf(heap[d]) = target_route) = is_target)

CallerRefs(schedule_list, current_factors, lab_history) ==
    {Ref("schedule_list", 0), Ref("lab_history", 0)}
    \cup {Ref("item", n) : n \in 1..Len(schedule_list)}
    \cup {Ref("record", n) : n \in 1..Len(lab_history)}
    \cup (IF current_factors = <<>> THEN {} ELSE {Ref("current_factors", 0)})

\* The caller's objects: the schedule list and its entries, the lab history
\* and its records, the calibration mapping (none when None is passed).
CallerHeap(schedule_list, current_factors, lab_history) ==
    [r \in CallerRefs(schedule_list, current_factors, lab_history) |->
        CASE r[1] = "schedule_list" -> [n \in 1..Len(schedule_list) |-> Ref("item", n)]
          [] r[1] = "item" -> schedule_list[r[2]]
          [] r[1] = "lab_history" -> [n \in 1..Len(lab_history) |-> Ref("record", n)]
          [] r[1] = "record" -> lab_history[r[2]]
          [] r[1] = "current_factors" -> current_factors[1]]

MemSchedules == {<<ItemDepot>>, <<ItemDepot, ItemOral>>, <<ItemUnknown, ItemOral>>}
MemFactors ==
    {<<>>, <<DefaultFactors>>,
     <<[r \in {"Injection", "Oral"} |-> IF r = "Oral" THEN 50 ELSE 200]>>}
MemHistories ==
    {<<>>, <<[day |-> 10, value |-> 20000]>>,
     <<[day |-> 0, value |-> 5000], [day |-> 10, value |-> 20000]>>,
     <<[day |-> 5, value |-> 0], [day |-> 10, value |-> 5000]>>}
MemLabs == {[day |-> 10, value |-> 20000], [day |-> 5, value |-> 5000],
            [day |-> 10, value |-> 0]}

MemCall(fn, pc, schedule_list, current_factors, lab_history, target_route, lab) ==
    [pc |-> pc, fn |-> fn,
     heap |-> CallerHeap(schedule_list, current_factors, lab_history),
     before |-> CallerHeap(schedule_list, current_factors, lab_history),
     schedule_list |-> Ref("schedule_list", 0),
     current_factors |-> IF current_factors = <<>> THEN NONE
                         ELSE Ref("current_factors", 0),
     lab_history |-> Ref("lab_history", 0),
     target_route |-> target_route, lab_day |-> lab.day, lab_value |-> lab.value,
     k |-> 0, calc_factors |-> NONE, ret |-> "done", factors |-> <<>>,
     result |-> <<>>]

MemInit ==
    /\ mem \in
         {MemCall("simulate_schedule", "s_start", sl, cf, <<>>, "Injection", lab) :
             sl \in MemSchedules \cup {<<>>}, cf \in MemFactors, lab \in MemLabs}
         \cup
         {MemCall("calculate_calibration_factor", "c_start", sl, cf, <<>>, tr, lab) :
             sl \in MemSchedules, cf \in MemFactors, tr \in CalRoutes, lab \in MemLabs}
         \cup
         {MemCall("calculate_weighted_calibration_factor", "w_start", sl, cf, lh, tr,
                  [day |-> 0, value |-> 0]) :
             sl \in MemSchedules, cf \in MemFactors, lh \in MemHistories,
             tr \in CalRoutes}
    /\ ka_st = Idle /\ sim = Idle /\ cal = Idle /\ app = Idle
    /\ analyzer = Idle /\ thr = Idle /\ bat = Idle /\ store = Idle

\* if calibration_factors is None: calibration_factors = {}
OrEmptyDict(heap, ref, fresh) ==
    IF ref = NONE THEN [heap |-> Alloc(heap, fresh, <<>>), ref |-> fresh]
    ELSE [heap |-> heap, ref |-> ref]

\* simulate_schedule: the arrays it fills are its own; the days argument is
\* lab_day + 1 at CAL_RESOLUTION samples a day.
MemSimulated(cf, r) ==
    [mem EXCEPT !.pc = IF r.status = "ok" THEN "done" ELSE "raised",
                !.heap = Alloc(Alloc(cf.heap, Ref("t_hours", 0), r.t),
                               Ref("total_conc", 0), r.c),
                !.result = r]

MemSimulate ==
    /\ mem.pc = "s_start"
    /\ mem' = MemSimulated(
                  OrEmptyDict(mem.heap, mem.current_factors, Ref("calibration_factors", 0)),
                  SimulateSchedule(DefaultAnalyzer, ListOf(mem.heap, mem.schedule_list),
                                   mem.lab_day + 10, CAL_RESOLUTION,
                                   IF mem.current_factors = NONE THEN <<>>
                                   ELSE mem.heap[mem.current_factors], <<>>, <<>>))
    /\ UNCHANGED <<ka_st, sim, cal, app, analyzer, thr, bat, store>>

\* if lab_value <= 0: return 1.0; if current_factors is None: ... = {}
MemCalEntered(cf) ==
    [mem EXCEPT !.pc = "c_copy", !.heap = cf.heap, !.current_factors = cf.ref]

MemCalStart ==
    /\ mem.pc = "c_start"
    /\ mem' = IF mem.lab_value <= 0
              THEN [mem EXCEPT !.pc = mem.ret,
                               !.result = CalReturn(FACTOR_NEUTRAL, 0, FALSE, 0, 0)]
              ELSE MemCalEntered(OrEmptyDict(mem.heap, mem.current_factors,
                                             Ref("current_factors", 1)))
    /\ UNCHANGED <<ka_st, sim, cal, app, analyzer, thr, bat, store>>

\* calc_factors = current_factors.copy()
MemCalCopied(c) == [mem EXCEPT !.pc = "c_force", !.heap = c.heap, !.calc_factors = c.ref]

MemCalCopy ==
    /\ mem.pc = "c_copy"
    /\ mem' = MemCalCopied(DictCopy(mem.heap, mem.current_factors,
                                    Ref("calc_factors", mem.k)))
    /\ UNCHANGED <<ka_st, sim, cal, app, analyzer, thr, bat, store>>

\* calc_factors[target_route] = 1.0
MemCalForce ==
    /\ mem.pc = "c_force"
    /\ mem' = [mem EXCEPT !.pc = "c_simulate",
                          !.heap = SetItem(@, mem.calc_factors, mem.target_route,
                                           FACTOR_NEUTRAL)]
    /\ UNCHANGED <<ka_st, sim, cal, app, analyzer, thr, bat, store>>

\* The two filtered lists, the two simulations and the factor read off them.
MemCalFactor(heap, r) ==
    [mem EXCEPT !.pc = IF r.status = "ok" THEN mem.ret ELSE "raised",
                !.heap = heap, !.result = r]

MemCalLists(heap) ==
    Alloc(Alloc(heap, Ref("other_schedule", mem.k),
                RouteRefs(heap, mem.schedule_list, mem.target_route, FALSE)),
          Ref("target_schedule", mem.k),
          RouteRefs(heap, mem.schedule_list, mem.target_route, TRUE))

MemCalCurves(heap) ==
    FactorFromCurves(
        mem.lab_day, mem.lab_value,
        SimulateSchedule(DefaultAnalyzer, ListOf(heap, Ref("other_schedule", mem.k)),
                         mem.lab_day + 10, CAL_RESOLUTION, heap[mem.calc_factors],
                         <<>>, <<>>),
        SimulateSchedule(DefaultAnalyzer, ListOf(heap, Ref("target_schedule", mem.k)),
                         mem.lab_day + 10, CAL_RESOLUTION,
                         [r \in {mem.target_route} |-> FACTOR_NEUTRAL], <<>>, <<>>),
        Max2(NumPoints(mem.lab_day + 10, CAL_RESOLUTION), 0),
        TotalTime(mem.lab_day + 10),
        Max2(NumPoints(mem.lab_day + 10, CAL_RESOLUTION) - 1, 1))

MemCalSimulated(heap) == MemCalFactor(heap, MemCalCurves(heap))

MemCalSimulate ==
    /\ mem.pc = "c_simulate"
    /\ mem' = MemCalSimulated(MemCalLists(mem.heap))
    /\ UNCHANGED <<ka_st, sim, cal, app, analyzer, thr, bat, store>>

\* if not lab_history: return 1.0; factors = []; weights = []
MemWeightedStart ==
    /\ mem.pc = "w_start"
    /\ mem' = IF mem.heap[mem.lab_history] = <<>>
              THEN [mem EXCEPT !.pc = "done",
                               !.result = [status |-> "ok", factor |-> FACTOR_NEUTRAL]]
              ELSE [mem EXCEPT !.pc = "w_loop", !.k = 1]
    /\ UNCHANGED <<ka_st, sim, cal, app, analyzer, thr, bat, store>>

\* for record in lab_history: k = self.calculate_calibration_factor(...)
MemWeightedLoop ==
    /\ mem.pc = "w_loop"
    /\ mem' = IF mem.k <= Len(mem.heap[mem.lab_history])
              THEN [mem EXCEPT !.pc = "c_start", !.ret = "w_append",
                               !.current_factors =
                                   IF Ref("current_factors", 0) \in DOMAIN mem.before
                                   THEN Ref("current_factors", 0) ELSE NONE,
                               !.lab_day = mem.heap[mem.heap[mem.lab_history][mem.k]].day,
                               !.lab_value = mem.heap[mem.heap[mem.lab_history][mem.k]].value]
              ELSE [mem EXCEPT !.pc = "done",
                               !.result = WeightedAverage(
                                   mem.factors,
                                   [j \in 1..Len(mem.heap[mem.lab_history]) |->
                                       ExpWeight(ListOf(mem.heap, mem.lab_history)[j].day)])]
    /\ UNCHANGED <<ka_st, sim, cal, app, analyzer, thr, bat, store>>

\* factors.append(k); weights.append(...)
MemWeightedAppend ==
    /\ mem.pc = "w_append"
    /\ mem' = [mem EXCEPT !.pc = "w_loop", !.k = @ + 1,
                          !.factors = Append(@, mem.result)]
    /\ UNCHANGED <<ka_st, sim, cal, app, analyzer, thr, bat, store>>

MemNext ==
    \/ MemSimulate
    \/ MemCalStart
    \/ MemCalCopy
    \/ MemCalForce
    \/ MemCalSimulate
    \/ MemWeightedStart
    \/ MemWeightedLoop
    \/ MemWeightedAppend

SpecMem == MemInit /\ [][MemNext]_vars

(***************************************************************************)
(* Concurrent invocations on one analyzer.  get_analyzer is cached, so the *)
(* sessions of the app share one HormoneAnalyzer (analyzer); thr holds two *)
(* invocations of simulate_schedule that interleave between the statements *)
(* of the loop over the schedule.  total_conc maps a slot to the running   *)
(* total kept there: one slot per invocation for its local array, and the  *)
(* slot "self" for an attribute of the shared instance.                    *)
(***************************************************************************)
Threads == {"t1", "t2"}
Slots == Threads \cup {"self"}

\* Mutant: the running total kept on the instance (self.total_conc).
SlotOf_Self(th) == "self"

\* total_conc = np.zeros_like(t_hours) is a local of the invocation
SlotOf(th) == th

\* @st.cache_resource get_analyzer(weight, age, ast, alt, body_fat, height)
get_analyzer(weight, age, ast, alt, body_fat, height) ==
    HormoneAnalyzer(weight, age, ast, alt, body_fat, height)

ThrSchedules == {<<ItemDepot>>, <<ItemDepot, ItemOral>>, <<ItemUnknown, ItemOral>>}
ThrDays == 20
ThrResolution == 2

ThrFrame(schedule_list, calibration_factors) ==
    [pc |-> "start", schedule_list |-> schedule_list, days |-> ThrDays,
     resolution |-> ThrResolution, calibration_factors |-> calibration_factors,
     n |-> 0, overlapped |-> FALSE, result |-> <<>>]

ThrInit ==
    /\ analyzer \in {get_analyzer(60, 25, 20, 20, 22, 170),
                     get_analyzer(95, 40, 150, 150, 35, 160)}
    /\ thr \in {[total_conc |-> [s \in Slots |-> <<>>],
                 frame |-> [th \in Threads |->
                               IF th = "t1" THEN ThrFrame(s1, c1) ELSE ThrFrame(s2, c2)]] :
                   s1 \in ThrSchedules, s2 \in ThrSchedules,
                   c1 \in SimFactors, c2 \in SimFactors}
    /\ ka_st = Idle /\ sim = Idle /\ cal = Idle /\ app = Idle
    /\ mem = Idle /\ bat = Idle /\ store = Idle

\* What entry n of the schedule adds to the running total, read off self.
ThrContribution(self, f, i) ==
    EntryConcAt(self,
                PrepareEntry(f.schedule_list[f.n], TotalTime(f.days),
                             f.calibration_factors, <<>>, <<>>),
                i, TotalTime(f.days), NumPoints(f.days, f.resolution))

\* t_hours = np.linspace(...); total_conc = np.zeros_like(t_hours)
ThrStart ==
    \E th \in Threads :
        /\ thr.frame[th].pc = "start"
        /\ thr' = [thr EXCEPT
                     !.total_conc[SlotOf(th)] =
                         [i \in 1..NumPoints(thr.frame[th].days, thr.frame[th].resolution) |-> 0],
                     !.frame[th].pc = "loop",
                     !.frame[th].n = 1,
                     !.frame[th].overlapped =
                         \E o \in Threads \ {th} : thr.frame[o].pc = "loop"]
        /\ UNCHANGED <<ka_st, sim, cal, app, mem, analyzer, bat, store>>

\* for item in schedule_list: ... total_conc[valid_mask] += ...
ThrAccumulate ==
    \E th \in Threads :
        /\ thr.frame[th].pc = "loop"
        /\ thr.frame[th].n <= Len(thr.frame[th].schedule_list)
        /\ thr' = [thr EXCEPT
                     !.total_conc[SlotOf(th)] =
                         [i \in 1..Len(@) |->
                             @[i] + ThrContribution(analyzer, thr.frame[th], i)],
                     !.frame[th].n = @ + 1]
        /\ UNCHANGED <<ka_st, sim, cal, app, mem, analyzer, bat, store>>

\* return t_hours / 24, total_conc
ThrReturn ==
    \E th \in Threads :
        /\ thr.frame[th].pc = "loop"
        /\ thr.frame[th].n > Len(thr.frame[th].schedule_list)
        /\ thr' = [thr EXCEPT !.frame[th].pc = "done",
                              !.frame[th].result = thr.total_conc[SlotOf(th)]]
        /\ UNCHANGED <<ka_st, sim, cal, app, mem, analyzer, bat, store>>

ThrNext ==
    \/ ThrStart
    \/ ThrAccumulate
    \/ ThrReturn

SpecThr == ThrInit /\ [][ThrNext]_vars

(***************************************************************************)
(* One evaluation of bateman_function, on the arguments held in bat: t in  *)
(* milli-days, dose in centi-mg, ka and ke per hour at scale RS, the       *)
(* bioavailability and the ester factor in hundredths.                     *)
(***************************************************************************)
BatTimes == {0, 1, 250, 1000, 14000, 25000}
BatDoses == {0, 200, 1000}
BatRates ==
    {<<3000000, 500000>>, <<500000, 500000>>, <<20000, 500000>>, <<100, 100>>,
     <<KA_INSTANT, 3465736>>, <<20631, 20631>>, <<500100, 500000>>}
BatFractions == {0, 3, 100}
BatRoutes == {"Injection", "Oral", "Nasal"}

BatInit ==
    /\ bat \in {[pc |-> "args", self |-> a, t |-> t, dose |-> d, ka |-> k[1],
                 ke |-> k[2], f |-> f, ester_factor |-> 76, route_type |-> r] :
                a \in {DefaultAnalyzer, HormoneAnalyzer(95, 40, 150, 150, 35, 160)},
                t \in BatTimes, d \in BatDoses, k \in BatRates, f \in BatFractions,
                r \in BatRoutes}
    /\ ka_st = Idle /\ sim = Idle /\ cal = Idle /\ app = Idle
    /\ mem = Idle /\ analyzer = Idle /\ thr = Idle /\ store = Idle

Evaluated(conc) ==
    [pc |-> "returned", self |-> bat.self, t |-> bat.t, dose |-> bat.dose,
     ka |-> bat.ka, ke |-> bat.ke, f |-> bat.f, ester_factor |-> bat.ester_factor,
     route_type |-> bat.route_type, conc |-> conc]

Evaluate ==
    /\ bat.pc = "args"
    /\ bat' = Evaluated(BatemanFunction(bat.self, bat.t, bat.dose, bat.ka, bat.ke,
                                        bat.f, bat.ester_factor, bat.route_type))
    /\ UNCHANGED <<ka_st, sim, cal, app, mem, analyzer, thr, store>>

BatNext == Evaluate

SpecBat == BatInit /\ [][BatNext]_vars

(***************************************************************************)
(* Building the analyzer from a profile: get_analyzer passes the profile's *)
(* fields to HormoneAnalyzer.__init__.  Weights in kg, heights in cm.      *)
(***************************************************************************)
ProfileWeights == {-5, 0, 10, 29, 30, 31, 60, 95, 250}
ProfileHeights == {-170, 0, 50, 99, 100, 101, 170, 210, 300}
ProfileFats == {-10, 5, 22, 60, 90}
\* age in years with AST and ALT in U/L
ProfileLabs ==
    {<<25, 20, 20>>, <<25, 40, 40>>, <<60, 41, 40>>, <<0, 20, 90>>,
     <<100, 140, 20>>, <<130, 150, 500>>, <<-100, -5, 0>>, <<26, 40, 45>>}
ProfileRoutes == Routes \cup {"Nasal"}

ProfileInit ==
    /\ analyzer \in {[pc |-> "profile", weight |-> w, height |-> h, age |-> lab[1],
                      ast |-> lab[2], alt |-> lab[3], body_fat |-> bf] :
                     w \in ProfileWeights, h \in ProfileHeights, bf \in ProfileFats,
                     lab \in ProfileLabs}
    /\ ka_st = Idle /\ sim = Idle /\ cal = Idle /\ app = Idle
    /\ mem = Idle /\ thr = Idle /\ bat = Idle /\ store = Idle

BuildAnalyzer ==
    /\ analyzer.pc = "profile"
    /\ analyzer' = [pc |-> "built", weight |-> analyzer.weight,
                    height |-> analyzer.height, age |-> analyzer.age,
                    ast |-> analyzer.ast, alt |-> analyzer.alt,
                    body_fat |-> analyzer.body_fat,
                    self |-> get_analyzer(analyzer.weight, analyzer.age, analyzer.ast,
                                          analyzer.alt, analyzer.body_fat,
                                          analyzer.height)]
    /\ UNCHANGED <<ka_st, sim, cal, app, mem, thr, bat, store>>

\* The modifiers bateman_function reads off the analyzer: fat_mod, bmi_mod,
\* liver_func_mod and, per route type, first_pass_mod.
ReadModifiers ==
    /\ analyzer.pc = "built"
    /\ analyzer' = [pc |-> "adjusted", weight |-> analyzer.weight,
                    height |-> analyzer.height, age |-> analyzer.age,
                    ast |-> analyzer.ast, alt |-> analyzer.alt,
                    body_fat |-> analyzer.body_fat, self |-> analyzer.self,
                    fat_mod |-> GetBodyFatAdjustment(analyzer.self),
                    bmi_mod |-> GetBmiAdjustment(analyzer.self),
                    liver_func_mod |-> GetLiverMetabolismFactor(analyzer.self),
                    first_pass_mod |->
                        [r \in ProfileRoutes |->
                            GetFirstPassAdjustment(analyzer.self, r)]]
    /\ UNCHANGED <<ka_st, sim, cal, app, mem, thr, bat, store>>

ProfileNext ==
    \/ BuildAnalyzer
    \/ ReadModifiers

SpecProfile == ProfileInit /\ [][ProfileNext]_vars

(***************************************************************************)
(* The drug store: on import of data.py every raw record is passed to the  *)
(* DrugInfo dataclass, whose __post_init__ checks the bioavailability      *)
(* (hundredths here); DRUG_DB holds the records built so far.  An          *)
(* exception ends the import and leaves no store.                          *)
(***************************************************************************)
\* Mutant: only the lower bound is checked.
PostInit_LowerOnly(self) == 0 <= self.bioavailability

\* not (0 <= self.bioavailability <= 1.0) raises ValueError
PostInit(self) == 0 <= self.bioavailability /\ self.bioavailability <= 100

\* DrugInfo(**data)
DrugInfo(data) ==
    IF PostInit(data) THEN [status |-> "ok", info |-> data]
    ELSE [status |-> "ValueError", info |-> <<>>]

\* The keys of DRUG_DB_RAW in their order.
StoreNames == <<EV_DEPOT, EV_ORAL, SPIRO>>
RawBioavailabilities == {-1, 0, 5, 100, 101}

StoreInit ==
    /\ store \in {[pc |-> "import",
                   raw |-> [n \in DOMAIN DRUG_DB |->
                              [DRUG_DB[n] EXCEPT !.bioavailability = b[n]]],
                   next |-> 1, db |-> <<>>] :
                  b \in [DOMAIN DRUG_DB -> RawBioavailabilities]}
    /\ ka_st = Idle /\ sim = Idle /\ cal = Idle /\ app = Idle
    /\ mem = Idle /\ analyzer = Idle /\ thr = Idle /\ bat = Idle

\* One step of {name: DrugInfo(**data) for name, data in DRUG_DB_RAW.items()}
Constructed(name, r) ==
    IF r.status # "ok" THEN [store EXCEPT !.pc = "raised"]
    ELSE [store EXCEPT !.db = MapSet(@, name, r.info),
                       !.next = @ + 1,
                       !.pc = IF store.next = Len(StoreNames) THEN "loaded" ELSE "import"]

ConstructRecord ==
    /\ store.pc = "import"
    /\ store' = Constructed(StoreNames[store.next],
                            DrugInfo(store.raw[StoreNames[store.next]]))
    /\ UNCHANGED <<ka_st, sim, cal, app, mem, analyzer, thr, bat>>

StoreNext == ConstructRecord

SpecStore == StoreInit /\ [][StoreNext]_vars

(***************************************************************************)
(* The superposition loop of simulate_schedule, dose by dose.  sim holds   *)
(* the frame of one invocation: the grid t_hours, the running total_conc,  *)
(* the index n of the entry and j of the dose time at hand, the locals e   *)
(* of the entry, and beside them the dose time added last and the running  *)
(* total as it stood before that dose.                                     *)
(***************************************************************************)
\* Mutant: no valid_mask, the curve evaluated at |shifted_t| on every grid
\* point.
AddDose_Unmasked(self, e, dose_t, total_conc, total, num_points) ==
    LET den == IF num_points = 1 THEN 1 ELSE num_points - 1
        Shifted(i) == (i - 1) * total - dose_t * den
    IN  [i \in 1..num_points |->
            total_conc[i]
            + MulDiv(BatemanFunction(self, Abs(Shifted(i)) \div den, e.dose, e.ka,
                                     e.ke, e.f, e.ef, e.route_type),
                     e.cf, FS)]

\* shifted_t = t_hours - dose_t; valid_mask = shifted_t >= 0;
\* total_conc[valid_mask] += bateman_function(shifted_t[valid_mask], ...) * cf
AddDose(self, e, dose_t, total_conc, total, num_points) ==
    LET den == IF num_points = 1 THEN 1 ELSE num_points - 1
        Shifted(i) == (i - 1) * total - dose_t * den
    IN  [i \in 1..num_points |->
            IF Shifted(i) >= 0
            THEN total_conc[i]
                 + MulDiv(BatemanFunction(self, Shifted(i) \div den, e.dose, e.ka,
                                          e.ke, e.f, e.ef, e.route_type),
                          e.cf, FS)
            ELSE total_conc[i]]

\* a cycling entry whose first dose day lies half a day before the cycle
\* start (a schedule entry as a session file may carry it)
ItemEarlyCycle ==
    [name |-> EV_ORAL, dose |-> 200, interval |-> 1000, is_cycling |-> TRUE,
     offset |-> -500, duration |-> 10]

\* a cycling entry whose only dose day is the last day of the cycle
ItemLateCycle ==
    [name |-> EV_ORAL, dose |-> 200, interval |-> 1000, is_cycling |-> TRUE,
     offset |-> 1000, duration |-> 10]

DoseSchedules ==
    {<<ItemDepot>>, <<ItemOralCycling, ItemDepot>>, <<ItemUnknown, ItemOral>>,
     <<ItemTiny, ItemOral>>, <<ItemEarlyCycle>>, <<ItemLateCycle>>}
DoseDays == {0, 10, 20, 25}
DoseResolutions == {1, 2, 3}
DoseFactors == SimFactors \cup {[r \in {"Oral"} |-> 300]}

DoseFrame(pc, n, j, e, total_conc, dose_t, before) ==
    [pc |-> pc, schedule_list |-> sim.schedule_list, days |-> sim.days,
     resolution |-> sim.resolution, calibration_factors |-> sim.calibration_factors,
     stop_day |-> sim.stop_day, t_hours |-> sim.t_hours,
     n |-> n, j |-> j, e |-> e, total_conc |-> total_conc,
     dose_t |-> dose_t, before |-> before]

DoseInit ==
    /\ sim \in {[pc |-> "entry", schedule_list |-> sl, days |-> d, resolution |-> res,
                 calibration_factors |-> cf, stop_day |-> sd,
                 t_hours |-> [i \in 1..NumPoints(d, res) |->
                                 GridTime(i, TotalTime(d), NumPoints(d, res))],
                 n |-> 1, j |-> 0, e |-> SkippedEntry,
                 total_conc |-> [i \in 1..NumPoints(d, res) |-> 0],
                 dose_t |-> 0, before |-> <<>>] :
                sl \in DoseSchedules, d \in DoseDays, res \in DoseResolutions,
                cf \in DoseFactors, sd \in StopDays}
    /\ ka_st = Idle /\ cal = Idle /\ app = Idle /\ mem = Idle
    /\ analyzer = Idle /\ thr = Idle /\ bat = Idle /\ store = Idle

\* for item in schedule_list: an entry the loop 'continue's past
DoseSkipEntry ==
    /\ sim.pc = "entry"
    /\ sim.n <= Len(sim.schedule_list)
    /\ ~EntryAccepted(sim.schedule_list[sim.n])
    /\ sim' = DoseFrame("entry", sim.n + 1, 0, SkippedEntry, sim.total_conc,
                        sim.dose_t, sim.before)
    /\ UNCHANGED <<ka_st, cal, app, mem, analyzer, thr, bat, store>>

\* for item in schedule_list: the locals of an accepted entry, up to the
\* cessation filter
DoseEnterEntry ==
    /\ sim.pc = "entry"
    /\ sim.n <= Len(sim.schedule_list)
    /\ EntryAccepted(sim.schedule_list[sim.n])
    /\ sim' = DoseFrame("dose", sim.n, 1,
                        PrepareEntry(sim.schedule_list[sim.n], TotalTime(sim.days),
                                     sim.calibration_factors, sim.stop_day, <<>>),
                        sim.total_conc, sim.dose_t, sim.before)
    /\ UNCHANGED <<ka_st, cal, app, mem, analyzer, thr, bat, store>>

\* for dose_t in all_dose_times: one pass of the loop body
DoseAdd ==
    /\ sim.pc = "dose"
    /\ sim.j <= Len(sim.e.all_dose_times)
    /\ sim' = DoseFrame("dose", sim.n, sim.j + 1, sim.e,
                        AddDose(DefaultAnalyzer, sim.e, sim.e.all_dose_times[sim.j],
                                sim.total_conc, TotalTime(sim.days),
                                Len(sim.t_hours)),
                        sim.e.all_dose_times[sim.j], sim.total_conc)
    /\ UNCHANGED <<ka_st, cal, app, mem, analyzer, thr, bat, store>>

\* all_dose_times exhausted: on to the next entry
DoseLeaveEntry ==
    /\ sim.pc = "dose"
    /\ sim.j > Len(sim.e.all_dose_times)
    /\ sim' = DoseFrame("entry", sim.n + 1, 0, sim.e, sim.total_conc,
                        sim.dose_t, sim.before)
    /\ UNCHANGED <<ka_st, cal, app, mem, analyzer, thr, bat, store>>

\* return t_hours / 24, total_conc
DoseReturn ==
    /\ sim.pc = "entry"
    /\ sim.n > Len(sim.schedule_list)
    /\ sim' = DoseFrame("finished", sim.n, 0, sim.e, sim.total_conc,
                        sim.dose_t, sim.before)
    /\ UNCHANGED <<ka_st, cal, app, mem, analyzer, thr, bat, store>>

DoseNext ==
    \/ DoseSkipEntry
    \/ DoseEnterEntry
    \/ DoseAdd
    \/ DoseLeaveEntry
    \/ DoseReturn

SpecDose == DoseInit /\ [][DoseNext]_vars

(***************************************************************************)
(* One call of calculate_weighted_calibration_factor on a lab history;     *)
(* cal holds its arguments, then the factors and weights lists the loop    *)
(* built and the value returned (or the exception a record's call raised). *)
(***************************************************************************)
WeightedRecords ==
    {[day |-> -10, value |-> 100000], [day |-> 0, value |-> 100000],
     [day |-> 10, value |-> 100000], [day |-> 10, value |-> 300000]}
WeightedHistories ==
    UNION {[1..n -> WeightedRecords] : n \in 0..MaxLabRecords}
WeightedSchedules == {<<ItemDepot>>, <<ItemDepot, ItemOral>>}

WeightedInit ==
    /\ cal \in {[pc |-> "history", schedule_list |-> sl, lab_history |-> lh,
                 target_route |-> tr, current_factors |-> cf] :
                sl \in WeightedSchedules, lh \in WeightedHistories,
                tr \in CalRoutes, cf \in SimFactors}
    /\ ka_st = Idle /\ sim = Idle /\ app = Idle /\ mem = Idle
    /\ analyzer = Idle /\ thr = Idle /\ bat = Idle /\ store = Idle

\* The lists and the result beside the arguments they were computed from.
Averaged(k, weights, r) ==
    [pc |-> IF r.status = "ok" THEN "averaged" ELSE "failed",
     schedule_list |-> cal.schedule_list, lab_history |-> cal.lab_history,
     target_route |-> cal.target_route, current_factors |-> cal.current_factors,
     k |-> k, weights |-> weights, r |-> r]

CalibrateWeighted ==
    /\ cal.pc = "history"
    /\ cal' = Averaged(FactorsOf(DefaultAnalyzer, cal.schedule_list, cal.lab_history,
                                 cal.target_route, cal.current_factors),
                       [j \in 1..Len(cal.lab_history) |->
                           ExpWeight(cal.lab_history[j].day)],
                       CalculateWeightedCalibrationFactor(
                           DefaultAnalyzer, cal.schedule_list, cal.lab_history,
                           cal.target_route, cal.current_factors))
    /\ UNCHANGED <<ka_st, sim, app, mem, analyzer, thr, bat, store>>

WeightedNext == CalibrateWeighted

SpecWeighted == WeightedInit /\ [][WeightedNext]_vars

(***************************************************************************)
(* Properties: of simulate_schedule under SpecSim, of the absorption       *)
(* solver under SpecKa, of calculate_calibration_factor under SpecCal and  *)
(* of the session under Spec.                                              *)
(***************************************************************************)
SimFinished == sim.pc \in {"returned", "raised"}
SimSchedule == sim.a \o sim.b
AllWellFormed(s) == \A n \in 1..Len(s) : EntryWellFormed(s[n])
\* horizonDays x resolution is a sample count: a non-negative whole number
LengthDefined ==
    sim.days * sim.resolution >= 0 /\ (sim.days * sim.resolution) % 10 = 0
SeqRange(s) == {s[j] : j \in 1..Len(s)}
SameCurve(r1, r2) ==
    /\ Len(r1.t) = Len(r2.t)
    /\ Len(r1.c) = Len(r2.c)
    /\ \A i \in 1..Len(r1.t) : r1.t[i] = r2.t[i]
    /\ \A i \in 1..Len(r1.c) : r1.c[i] = r2.c[i]
SameResult(r1, r2) == r1.status = r2.status /\ SameCurve(r1, r2)
SomePositive(c) == \E i \in 1..Len(c) : c[i] > 0

\* C2: with stop_day = S and no resume_day, every retained dose time of
\* every entry is strictly below S*24 hours (a dose at exactly S*24 is
\* dropped).
C2_NoDoseAtOrAfterStop ==
    (sim.pc = "returned" /\ sim.stop_day # <<>> /\ sim.resume_day = <<>>) =>
        \A n \in 1..Len(sim.rab.doses) :
            \A dt \in SeqRange(sim.rab.doses[n]) : dt < sim.stop_day[1] * DAY

\* C3: with stop_day = S and resume_day = R both set, the dose times
\* removed from an entry are exactly the generated ones strictly between
\* S*24 and R*24 hours; every other generated dose time is retained, and
\* the total at every grid point is the sum of their contributions.
StrictlyBetween(dt, lo, hi) == lo < dt /\ dt < hi

C3_ResumeWindowExact ==
    (sim.pc = "returned" /\ sim.stop_day # <<>> /\ sim.resume_day # <<>>) =>
        LET total == TotalTime(sim.days)
            n_pts == Len(sim.rab.t)
            Kept(dt) == ~StrictlyBetween(dt, sim.stop_day[1] * DAY,
                                         sim.resume_day[1] * DAY)
            Expected(item) ==
                IF EntryAccepted(item)
                THEN SelectSeq(GenerateDoseTimes(item, total), Kept)
                ELSE <<>>
            Entry(item) ==
                IF EntryAccepted(item)
                THEN [PrepareEntry(item, total, sim.calibration_factors, <<>>, <<>>)
                        EXCEPT !.all_dose_times = Expected(item)]
                ELSE SkippedEntry
        IN  /\ \A n \in 1..Len(SimSchedule) :
                  sim.rab.doses[n] = Expected(SimSchedule[n])
            /\ \A i \in 1..n_pts :
                  sim.rab.c[i] =
                      SumSeq([n \in 1..Len(SimSchedule) |->
                          EntryConcAt(DefaultAnalyzer, Entry(SimSchedule[n]), i,
                                      total, n_pts)])

C3_Witness ==
    /\ sim.pc = "returned"
    /\ sim.stop_day # <<>> /\ sim.resume_day # <<>>
    /\ \E n \in 1..Len(SimSchedule) :
          /\ EntryAccepted(SimSchedule[n])
          /\ Len(sim.rab.doses[n]) <
                Len(GenerateDoseTimes(SimSchedule[n], TotalTime(sim.days)))
          /\ sim.stop_day[1] * DAY \in SeqRange(sim.rab.doses[n])
          /\ sim.resume_day[1] * DAY \in SeqRange(sim.rab.doses[n])
    /\ SomePositive(sim.rab.c)

\* C4: superposition.  Whenever the call on A followed by B returns, the
\* calls on A and on B return too, the three time axes are identical and
\* at every grid point the total for A followed by B is the total for A
\* plus the total for B.
C4_Superposition ==
    (sim.pc = "returned") =>
        /\ sim.ra.status = "ok" /\ sim.rb.status = "ok"
        /\ Len(sim.ra.t) = Len(sim.rab.t) /\ Len(sim.rb.t) = Len(sim.rab.t)
        /\ \A i \in 1..Len(sim.rab.t) :
              /\ sim.ra.t[i] = sim.rab.t[i]
              /\ sim.rb.t[i] = sim.rab.t[i]
              /\ sim.rab.c[i] = sim.ra.c[i] + sim.rb.c[i]

C4_Witness ==
    /\ sim.pc = "returned"
    /\ \E i \in 1..Len(sim.rab.c) :
          /\ sim.ra.c[i] > 0 /\ sim.rb.c[i] > 0
          /\ sim.rab.c[i] = sim.ra.c[i] + sim.rb.c[i]

\* C5: when the solver returns, whatever exit path it took, ka > ke.
C5_KaAboveKe == (ka_st.pc = "done") => ka_st.ka > ka_st.ke

HasKnownName(item) == item["name"] \in DOMAIN DRUG_DB

C8_UnknownDrugSkipped ==
    (/\ SimFinished /\ AllWellFormed(SimSchedule)
     /\ \E n \in 1..Len(SimSchedule) : ~HasKnownName(SimSchedule[n])) =>
        /\ NumPoints(sim.days, sim.resolution) >= 0 => sim.rab.status = "ok"
        /\ SameResult(sim.rab, Run(SelectSeq(SimSchedule, HasKnownName)))

C8_Witness ==
    /\ sim.pc = "returned"
    /\ \E n, m \in 1..Len(SimSchedule) :
          /\ n < m
          /\ ~HasKnownName(SimSchedule[n])
          /\ EntryAccepted(SimSchedule[m])
          /\ sim.rab.doses[m] # <<>>
    /\ SomePositive(sim.rb.c)

\* C9: an entry with all required fields whose interval is below 0.01 days
\* (zero and negative included) is skipped with no dose time generated for
\* it: the call ends as the call on the schedule without those entries
\* ends, with the same time axis and the same totals, and it returns
\* wherever the sample count is not negative.
HasUsableInterval(item) == ~(item["interval"] < INTERVAL_MIN)

C9_SmallIntervalSkipped ==
    (/\ SimFinished /\ AllWellFormed(SimSchedule)
     /\ \E n \in 1..Len(SimSchedule) : ~HasUsableInterval(SimSchedule[n])) =>
        /\ NumPoints(sim.days, sim.resolution) >= 0 =>
              /\ sim.rab.status = "ok"
              /\ \A n \in 1..Len(SimSchedule) :
                    ~HasUsableInterval(SimSchedule[n]) => sim.rab.doses[n] = <<>>
        /\ SameResult(sim.rab, Run(SelectSeq(SimSchedule, HasUsableInterval)))

C9_Witness ==
    /\ sim.pc = "returned"
    /\ \E n, m \in 1..Len(SimSchedule) :
          /\ n < m
          /\ SimSchedule[n]["interval"] <= 0
          /\ EntryAccepted(SimSchedule[m])
          /\ sim.rab.doses[m] # <<>>
    /\ \E n \in 1..Len(SimSchedule) :
          SimSchedule[n]["interval"] > 0 /\ ~HasUsableInterval(SimSchedule[n])
    /\ SomePositive(sim.rab.c)

\* C10: a schedule whose entries all carry name, dose and interval is
\* never rejected, whatever the numbers given for the horizon, resolution,
\* stop and resume day.
C10_NoNumericRejection ==
    (SimFinished /\ AllWellFormed(SimSchedule)) => sim.rab.status = "ok"

\* C1: calculate_calibration_factor returns, for every schedule, target
\* route, lab day and lab value, a factor within [0.1, 5.0]; it never
\* raises.
C1_FactorClampedNeverRaises ==
    (cal.pc \in {"returned", "raised"}) =>
        /\ cal.r.status = "ok"
        /\ FACTOR_MIN <= cal.r.factor /\ cal.r.factor <= FACTOR_MAX

\* C6: every value of the session's calibration_factors mapping is within
\* [0.1, 5.0] in every state: after adding or deleting a lab record, after
\* a reset, after loading a patient and after importing a session file.
C6_SessionFactorsInRange ==
    (app # Idle) =>
        \A r \in DOMAIN app.calibration_factors :
            /\ FACTOR_MIN <= app.calibration_factors[r]
            /\ app.calibration_factors[r] <= FACTOR_MAX

\* C11: during and after a call of simulate_schedule,
\* calculate_calibration_factor or calculate_weighted_calibration_factor
\* every object the caller passed (the schedule list, each entry, the
\* calibration mapping, the lab history and each record) holds the value
\* it held at the call.
C11_InputsUnchanged ==
    (mem # Idle) => \A r \in DOMAIN mem.before : mem.heap[r] = mem.before[r]

C11_Witness ==
    /\ mem # Idle
    /\ mem.pc = "done"
    /\ mem.fn = "calculate_weighted_calibration_factor"
    /\ Ref("current_factors", 0) \in DOMAIN mem.heap
    /\ mem.heap[Ref("current_factors", 0)][mem.target_route] # FACTOR_NEUTRAL
    /\ mem.calc_factors # NONE
    /\ mem.heap[mem.calc_factors][mem.target_route] = FACTOR_NEUTRAL
    /\ Len(mem.factors) = 2

\* C12: the invocations write nothing they share.  No attribute of the
\* shared analyzer is written, and under every interleaving of two
\* invocations of simulate_schedule on it each invocation that has returned
\* holds the totals the same call computes when run alone.
C12_InterleavingIndependent ==
    (thr # Idle) =>
        /\ thr.total_conc["self"] = <<>>
        /\ \A th \in Threads :
              thr.frame[th].pc = "done" =>
                  thr.frame[th].result =
                      SimulateSchedule(analyzer, thr.frame[th].schedule_list,
                                       thr.frame[th].days, thr.frame[th].resolution,
                                       thr.frame[th].calibration_factors, <<>>, <<>>).c

C12_Witness ==
    /\ thr # Idle
    /\ \A th \in Threads : thr.frame[th].pc = "done"
    /\ \E th \in Threads : thr.frame[th].overlapped
    /\ thr.frame["t1"].result # thr.frame["t2"].result
    /\ \A th \in Threads : SomePositive(thr.frame[th].result)

\* The target route's factor in the current mapping, 1.0 without one.
CurrentFactor == CfGet(cal.current_factors, cal.target_route)

\* The calibration has returned for a positive lab value read off the
\* current simulation at the selected sample, target concentration >= 0.1.
TroughFedBack ==
    /\ cal # Idle
    /\ cal.pc = "returned"
    /\ cal.lab_value > 0
    /\ cal.r.conc_target >= TARGET_CONC_MIN

\* C13 as stated: a lab value equal to the currently simulated trough
\* yields factor 1.0 for the target route, within 0.01.
C13_TroughYieldsNeutral ==
    TroughFedBack => Abs(cal.r.factor - FACTOR_NEUTRAL) <= 1

\* C13 amended: a positive lab value equal to the currently simulated
\* trough yields the target route's current factor (1.0 when the mapping
\* holds none for the route) clipped to [0.1, 5.0], within 0.01.
C13_TroughYieldsCurrentFactor ==
    TroughFedBack =>
        Abs(cal.r.factor - Clip(CurrentFactor, FACTOR_MIN, FACTOR_MAX)) <= 1

C13_Witness ==
    /\ TroughFedBack
    /\ CurrentFactor = 200
    /\ cal.r.factor = 200
    /\ cal.r.conc_other > 0

\* C14: a call of calculate_calibration_factor with lab_value <= 0 returns
\* exactly 1.0 and raises nothing, whatever the schedule, the lab day, the
\* target route and the current mapping.
C14_NonPositiveLabNeutral ==
    (cal # Idle /\ cal.pc # "args" /\ cal.pc # "measure" /\ cal.lab_value <= 0) =>
        /\ cal.pc = "returned"
        /\ cal.r.status = "ok"
        /\ cal.r.factor = 100

C14_Witness ==
    /\ cal # Idle
    /\ cal.pc = "returned"
    /\ cal.lab_value = 0
    /\ cal.lab_day = -20
    /\ cal.schedule_list = <<ItemNoInterval>>
    /\ cal.current_factors = <<>>
    /\ cal.r.factor = 100

\* C15: bateman_function returns 0 at t = 0 and a value >= 0 at every
\* t >= 0, for dose >= 0, ka > 0, ke > 0 and bioavailability in [0, 1],
\* ka = ke included.
C15_BatemanNonNegative ==
    (bat # Idle /\ bat.pc = "returned") =>
        /\ bat.conc >= 0
        /\ bat.t = 0 => bat.conc = 0

C15_Witness ==
    /\ bat # Idle
    /\ bat.pc = "returned"
    /\ bat.ka = bat.ke
    /\ bat.t > 0
    /\ bat.conc > 0

\* Grid point i of the returned curve lies at or after time at (milli-days).
GridAtOrAfter(i, at) ==
    (i - 1) * TotalTime(sim.days)
        >= at * Max2(NumPoints(sim.days, sim.resolution) - 1, 1)

StoppedForGood ==
    /\ sim # Idle
    /\ sim.pc = "returned"
    /\ sim.stop_day # <<>>
    /\ sim.resume_day = <<>>

\* C16 as stated: with stop_day = S and no resume_day, each sample at day
\* >= S is <= the sample before it.
C16_NonIncreasingAfterStop ==
    StoppedForGood =>
        \A i \in 2..Len(sim.rab.c) :
            GridAtOrAfter(i, sim.stop_day[1] * DAY) => sim.rab.c[i] <= sim.rab.c[i - 1]

\* The time after a dose at which its curve peaks, ln(ka/ke) / (ka - ke)
\* hours, in milli-days rounded up.
PeakDelay(e) == MulDiv(MulDiv(Ln(e.ka) - Ln(e.ke), DAY, 24), 1, e.ka - e.ke) + 1

\* Grid point i lies at or after the peak of every dose of the schedule
\* given at or before hour S * 24.
PastEveryPeak(i, entries) ==
    \A n \in 1..Len(entries) :
        \A dt \in SeqRange(entries[n].all_dose_times) :
            dt <= sim.stop_day[1] * DAY => GridAtOrAfter(i, dt + PeakDelay(entries[n]))

\* A sample after which the total can only fall.
Settled(i) ==
    /\ GridAtOrAfter(i, sim.stop_day[1] * DAY)
    /\ PastEveryPeak(i, PrepareEntries(sim.a \o sim.b, TotalTime(sim.days),
                                       sim.calibration_factors, <<>>, <<>>))

\* C16 amended: with stop_day = S, no resume_day and no negative
\* calibration factor, each sample is <= the sample before it when that
\* earlier sample lies at or after day S and at or after the peak of the
\* curve of every dose given at or before hour S * 24.
C16_NonIncreasingPastPeaks ==
    StoppedForGood =>
        \A i \in 2..Len(sim.rab.c) : Settled(i - 1) => sim.rab.c[i] <= sim.rab.c[i - 1]

C16_Witness ==
    /\ StoppedForGood
    /\ \E i \in 2..Len(sim.rab.c) :
          /\ Settled(i - 1)
          /\ sim.rab.c[i] < sim.rab.c[i - 1]
          /\ sim.rab.c[i] > 0
    /\ \E n \in 1..Len(sim.rab.doses) :
          \E dt \in SeqRange(sim.rab.doses[n]) : dt = sim.stop_day[1] * DAY

\* C17: for t_peak <= 0 the solver returns ka = 100 exactly, at once and
\* without a Newton iteration, whatever ke is.
C17_InstantAbsorption ==
    (ka_st # Idle /\ ka_st.pc # "start" /\ ka_st.t_peak <= 0) =>
        /\ ka_st.pc = "done"
        /\ ka_st.ka = 100 * RS
        /\ ka_st.it = 0

C17_Witness ==
    /\ ka_st # Idle
    /\ ka_st.pc = "done"
    /\ ka_st.t_peak < 0
    /\ ka_st.ke > 100 * RS
    /\ ka_st.ka = 100 * RS

\* C18: whatever weight and height the profile holds, the analyzer built
\* from it has weight >= 30 kg and height >= 100 cm, and its BMI is the
\* clamped weight over the square of the clamped height in metres, a
\* positive number.
C18_ProfileClamped ==
    (analyzer # Idle /\ analyzer.pc = "built") =>
        /\ analyzer.self.weight >= 30
        /\ analyzer.self.height >= 100
        /\ analyzer.self.weight >= analyzer.weight
        /\ analyzer.self.height >= analyzer.height
        /\ analyzer.self.bmi =
               (analyzer.self.weight * 1000000)
                   \div (analyzer.self.height * analyzer.self.height)
        /\ analyzer.self.bmi > 0

C18_Witness ==
    /\ analyzer # Idle
    /\ analyzer.pc = "built"
    /\ analyzer.weight < 30
    /\ analyzer.height < 100
    /\ analyzer.self.weight = 30
    /\ analyzer.self.height = 100
    /\ analyzer.self.bmi = 3000

\* C19: a raw record whose bioavailability lies outside [0, 1] is never
\* constructed (its construction raises ValueError and the import ends),
\* so every record of the drug store has its bioavailability in [0, 1].
InUnitRange(f) == 0 <= f /\ f <= 100

C19_BioavailabilityChecked ==
    (store # Idle) =>
        /\ \A n \in DOMAIN store.db : InUnitRange(store.db[n].bioavailability)
        /\ \A n \in DOMAIN store.raw :
              ~InUnitRange(store.raw[n].bioavailability) => n \notin DOMAIN store.db
        /\ store.pc = "raised" =>
              ~InUnitRange(store.raw[StoreNames[store.next]].bioavailability)
        /\ store.pc = "loaded" => store.db = store.raw
        /\ \A n \in DOMAIN DRUG_DB : InUnitRange(DRUG_DB[n].bioavailability)

C19_Witness ==
    /\ store # Idle
    /\ store.pc = "raised"
    /\ store.next = 2
    /\ store.raw[EV_ORAL].bioavailability = 101
    /\ DOMAIN store.db = {EV_DEPOT}

\* |t_peak * (ka - ke) - (ln ka - ln ke)| <= 1e-3 * t_peak * (ka - ke):
\* t_peak is (ln ka - ln ke) / (ka - ke) within 1e-3 relative error.
PeakEquationHolds ==
    Abs(MulDiv(ka_st.t_peak, ka_st.ka - ka_st.ke, 1000) - (Ln(ka_st.ka) - Ln(ka_st.ke)))
        * 1000 <= Abs(MulDiv(ka_st.t_peak, ka_st.ka - ka_st.ke, 1000))

Solved == ka_st # Idle /\ ka_st.pc = "done" /\ ka_st.t_peak > 0

PeakReachable ==
    /\ MulDiv(ka_st.t_peak, LN2_RS, RS) < ka_st.half_life
    /\ ka_st.t_peak >= 1
    /\ ka_st.t_peak <= 100000

C21_GridHalfOpenUniform ==
    (sim.pc = "returned" /\ LengthDefined) =>
        /\ Len(sim.rab.t) * 10 = sim.days * sim.resolution
        /\ \A i \in 1..Len(sim.rab.t) :
              /\ i = 1 => sim.rab.t[i] = 0
              /\ i > 1 => (sim.rab.t[i] - sim.rab.t[i - 1]) * sim.resolution = DAY
              /\ sim.rab.t[i] < TotalTime(sim.days)

\* C22: a dose just added has changed the running total only at the grid
\* points at or after its dose time, there by the single-dose
\* concentration at (grid time - dose time) times the calibration factor
\* of the drug's route (1.0 when the mapping holds none); the grid points
\* before the dose time hold what they held before.  The returned total
\* is the one simulate_schedule yields.
DoseJustAdded == sim.pc = "dose" /\ sim.j > 1

C22_DoseCausal ==
    /\ DoseJustAdded =>
          \A i \in 1..Len(sim.t_hours) :
              IF sim.t_hours[i] >= sim.dose_t
              THEN sim.total_conc[i] - sim.before[i] =
                       MulDiv(BatemanFunction(DefaultAnalyzer,
                                              sim.t_hours[i] - sim.dose_t,
                                              sim.e.dose, sim.e.ka, sim.e.ke,
                                              sim.e.f, sim.e.ef, sim.e.route_type),
                              CfGet(sim.calibration_factors, sim.e.route_type), FS)
              ELSE sim.total_conc[i] = sim.before[i]
    /\ sim.pc = "finished" =>
          sim.total_conc =
              SimulateSchedule(DefaultAnalyzer, sim.schedule_list, sim.days,
                               sim.resolution, sim.calibration_factors,
                               sim.stop_day, <<>>).c

C22_Witness ==
    /\ DoseJustAdded
    /\ sim.dose_t > 0
    /\ sim.e.route_type \notin DOMAIN sim.calibration_factors
    /\ \E i, k \in 1..Len(sim.t_hours) :
          /\ sim.t_hours[i] < sim.dose_t
          /\ sim.before[i] > 0
          /\ sim.t_hours[k] > sim.dose_t
          /\ sim.total_conc[k] > sim.before[k]
          /\ sim.before[k] > 0

\* C23: whatever the schedule, horizon and calibration mapping, no dose
\* time of an entry precedes the start of the grid, and the first sample
\* of the returned total (t = 0) is 0.
C23_FirstSampleZero ==
    /\ sim.pc = "dose" => \A dt \in SeqRange(sim.e.all_dose_times) : dt >= 0
    /\ (sim.pc = "finished" /\ Len(sim.total_conc) > 0) => sim.total_conc[1] = 0

\* C24: the dose times generated for an accepted entry (no stop day).  A
\* non-cycling entry: exactly the multiples k * interval below the horizon,
\* once each.  A cycling entry: every cycle start s below the horizon is
\* expanded into the times s + offset + d days for d = 0..duration-1.
DoseItem == sim.schedule_list[sim.n]
DoseEntered == sim.pc = "dose" /\ sim.stop_day = <<>>
Occurrences(s, x) == Cardinality({j \in 1..Len(s) : s[j] = x})
\* the k with 0 <= k * interval < horizon
CycleIndex(item, total) ==
    {k \in 0..(Max2(total, 0) \div item["interval"]) : k * item["interval"] < total}
\* the d with 0 <= d <= duration - 1
DayIndex(item) == 0..(IntOfTenths(ItemGet(item, "duration", 10)) - 1)
DoseTimeAt(item, k, d) == k * item["interval"] + ItemGet(item, "offset", 0) + d * DAY
Cycling(item) == ItemGet(item, "is_cycling", FALSE)

PlainDoseTimesExact ==
    (DoseEntered /\ ~Cycling(DoseItem)) =>
        /\ Len(sim.e.all_dose_times) = Cardinality(CycleIndex(DoseItem, TotalTime(sim.days)))
        /\ \A k \in CycleIndex(DoseItem, TotalTime(sim.days)) :
              Occurrences(sim.e.all_dose_times, k * DoseItem["interval"]) = 1

\* ... each cycle yields exactly `duration` dose times, and a cycle start
\* is a dose time only when offset = 0.
C24_DoseTimesExact ==
    /\ PlainDoseTimesExact
    /\ (DoseEntered /\ Cycling(DoseItem)) =>
          LET K == CycleIndex(DoseItem, TotalTime(sim.days))
              D == DayIndex(DoseItem)
          IN  /\ Len(sim.e.all_dose_times) = Cardinality(K) * Cardinality(D)
              /\ \A k \in K : \A d \in D :
                    Occurrences(sim.e.all_dose_times, DoseTimeAt(DoseItem, k, d)) =
                        Cardinality({p \in K \X D :
                            DoseTimeAt(DoseItem, p[1], p[2]) = DoseTimeAt(DoseItem, k, d)})
              /\ \A k \in K :
                    Occurrences(sim.e.all_dose_times, k * DoseItem["interval"]) > 0
                        => ItemGet(DoseItem, "offset", 0) = 0

\* ... of these times the ones below the horizon are the dose times (one
\* at or beyond the horizon is dropped), and a cycle start is a dose time
\* only where it is one of these times.
C24_DoseTimesBelowHorizon ==
    /\ PlainDoseTimesExact
    /\ (DoseEntered /\ Cycling(DoseItem)) =>
          LET K == CycleIndex(DoseItem, TotalTime(sim.days))
              D == DayIndex(DoseItem)
              Below == {p \in K \X D :
                           DoseTimeAt(DoseItem, p[1], p[2]) < TotalTime(sim.days)}
          IN  /\ Len(sim.e.all_dose_times) = Cardinality(Below)
              /\ \A q \in Below :
                    Occurrences(sim.e.all_dose_times, DoseTimeAt(DoseItem, q[1], q[2])) =
                        Cardinality({p \in Below :
                            DoseTimeAt(DoseItem, p[1], p[2]) =
                                DoseTimeAt(DoseItem, q[1], q[2])})
              /\ \A k \in K :
                    Occurrences(sim.e.all_dose_times, k * DoseItem["interval"]) > 0
                        => \E p \in Below :
                               DoseTimeAt(DoseItem, p[1], p[2]) = k * DoseItem["interval"]

C24_Witness ==
    /\ DoseEntered /\ Cycling(DoseItem)
    /\ ItemGet(DoseItem, "offset", 0) > 0
    /\ Len(sim.e.all_dose_times) >= 2
    /\ Len(sim.e.all_dose_times) <
          Cardinality(CycleIndex(DoseItem, TotalTime(sim.days)))
              * Cardinality(DayIndex(DoseItem))
    /\ \E m \in 1..Len(sim.schedule_list) : ~Cycling(sim.schedule_list[m])

\* C25: the number of dose times generated for an accepted entry is at
\* most ceil(horizonDays / interval), hence at most 100 x horizonDays.
CeilDiv(a, b) == (a + b - 1) \div b
CycleCap == CeilDiv(TotalTime(sim.days), DoseItem["interval"])

PerCycleCap(item) ==
    IF Cycling(item) THEN Max2(IntOfTenths(ItemGet(item, "duration", 10)), 0) ELSE 1

CalFinished == cal.pc \in {"returned", "raised"}
CalOther ==
    SimulateSchedule(DefaultAnalyzer,
                     RouteSchedule(cal.schedule_list, cal.target_route, FALSE),
                     cal.lab_day + 10, CAL_RESOLUTION,
                     CalcFactors(cal.current_factors, cal.target_route), <<>>, <<>>)
CalTarget ==
    SimulateSchedule(DefaultAnalyzer,
                     RouteSchedule(cal.schedule_list, cal.target_route, TRUE),
                     cal.lab_day + 10, CAL_RESOLUTION,
                     [r \in {cal.target_route} |-> FACTOR_NEUTRAL], <<>>, <<>>)

InWindow(t, lab_day) ==
    /\ t >= Max2(0, lab_day * (DAY \div 10) - WINDOW_BEFORE)
    /\ t <= lab_day * (DAY \div 10) + WINDOW_AFTER

TroughSelected(r, other, target, lab_day) ==
    /\ r.status = "ok"
    /\ r.idx \in 1..Len(other.t)
    /\ r.conc_other = other.c[r.idx]
    /\ r.conc_target = target.c[r.idx]
    /\ IF \E j \in 1..Len(other.t) : InWindow(other.t[j], lab_day)
       THEN /\ InWindow(other.t[r.idx], lab_day)
            /\ ~r.fallback
            /\ \A j \in 1..Len(other.t) :
                  InWindow(other.t[j], lab_day) =>
                      other.c[r.idx] + target.c[r.idx] <= other.c[j] + target.c[j]
       ELSE /\ r.fallback
            /\ \A j \in 1..Len(other.t) :
                  Abs(other.t[r.idx] - lab_day * (DAY \div 10))
                      <= Abs(other.t[j] - lab_day * (DAY \div 10))

C26_TroughSampleSelected ==
    (CalFinished /\ cal.lab_value > 0 /\ AllWellFormed(cal.schedule_list)) =>
        TroughSelected(cal.r, CalOther, CalTarget, cal.lab_day)

\* C27: when the target route's simulated concentration at the selected
\* sample is below 0.1 (as it is at every sample when the schedule has no
\* entry of the target route), the factor returned is exactly 1.0,
\* whatever the lab value and the other routes' concentration.
NoTargetEntry ==
    RouteSchedule(cal.schedule_list, cal.target_route, TRUE) = <<>>

C27_LowTargetNeutral ==
    (cal.pc = "returned" /\ cal.lab_value > 0) =>
        /\ CalTarget.c[cal.r.idx] < TARGET_CONC_MIN => cal.r.factor = FACTOR_NEUTRAL
        /\ NoTargetEntry =>
              /\ CalTarget.c[cal.r.idx] = 0
              /\ cal.r.factor = FACTOR_NEUTRAL

C27_Witness ==
    /\ cal.pc = "returned" /\ cal.lab_value > 0
    /\ NoTargetEntry
    /\ cal.r.conc_target < TARGET_CONC_MIN
    /\ cal.r.conc_other > 0
    /\ cal.lab_value > 10 * cal.r.conc_other
    /\ cal.r.factor = FACTOR_NEUTRAL

\* C28: an empty lab history returns 1.0.  Otherwise, when every record's
\* calculate_calibration_factor call returns, the result is the average of
\* those factors weighted by e^(day/14): a later day never weighs less, a
\* one-record history returns that record's factor, and the result lies
\* between the smallest and the largest per-record factor.
WeightedDone == cal.pc \in {"averaged", "failed"}
WeightSum == SumSeq(cal.weights)
WeightedSum == SumSeq([j \in 1..Len(cal.k) |-> cal.k[j].factor * cal.weights[j]])
\* ln(weight) = day / 14, within 1e-4
WeightIsExp(j) ==
    Abs(Ln(MulDiv(cal.weights[j], RS, XS))
        - MulDiv(cal.lab_history[j].day, RS, 10 * WEIGHT_DAYS)) <= RS \div 10000

C28_WeightedAverage ==
    /\ (WeightedDone /\ cal.lab_history = <<>>) =>
          cal.pc = "averaged" /\ cal.r.factor = FACTOR_NEUTRAL
    /\ (WeightedDone /\ \A j \in 1..Len(cal.k) : cal.k[j].status = "ok") =>
          cal.pc = "averaged"
    /\ (cal.pc = "averaged" /\ cal.lab_history # <<>>) =>
          /\ Len(cal.k) = Len(cal.lab_history)
          /\ \A j \in 1..Len(cal.k) :
                /\ cal.k[j] = CalculateCalibrationFactor(
                                  DefaultAnalyzer, cal.schedule_list,
                                  cal.lab_history[j].day, cal.lab_history[j].value,
                                  cal.target_route, cal.current_factors)
                /\ WeightIsExp(j)
          /\ \A a, b \in 1..Len(cal.k) :
                cal.lab_history[a].day <= cal.lab_history[b].day
                    => cal.weights[a] <= cal.weights[b]
          /\ cal.r.factor * WeightSum <= WeightedSum
          /\ WeightedSum < (cal.r.factor + 1) * WeightSum
          /\ Len(cal.k) = 1 => cal.r.factor = cal.k[1].factor
          /\ \E a, b \in 1..Len(cal.k) :
                cal.k[a].factor <= cal.r.factor /\ cal.r.factor <= cal.k[b].factor

C28_Witness ==
    /\ cal.pc = "averaged"
    /\ Len(cal.k) = 2
    /\ cal.lab_history[1].day < cal.lab_history[2].day
    /\ cal.weights[1] < cal.weights[2]
    /\ cal.k[1].factor < cal.r.factor
    /\ cal.r.factor < cal.k[2].factor
    /\ 2 * cal.r.factor > cal.k[1].factor + cal.k[2].factor

\* C29: for every profile the liver factor is 1.0 when max(AST, ALT) <= 40
\* and otherwise above 1.0 and at most 1.2; the body-fat adjustment is
\* within [0.8, 1.5]; the BMI adjustment within [0.9, 1.3]; the first-pass
\* adjustment within [0.85, 1.15] for the route types Oral and
\* Anti-Androgen and exactly 1.0 for every other route type.
Adjusted == analyzer # Idle /\ analyzer.pc = "adjusted"

C29_ModifiersInRange ==
    Adjusted =>
        /\ IF Max2(analyzer.ast, analyzer.alt) <= 40
           THEN analyzer.liver_func_mod = MS
           ELSE MS < analyzer.liver_func_mod /\ analyzer.liver_func_mod <= 1200
        /\ 800 <= analyzer.fat_mod /\ analyzer.fat_mod <= 1500
        /\ 900 <= analyzer.bmi_mod /\ analyzer.bmi_mod <= 1300
        /\ \A r \in ProfileRoutes :
              IF r \in {"Oral", "Anti-Androgen"}
              THEN 850 <= analyzer.first_pass_mod[r]
                   /\ analyzer.first_pass_mod[r] <= 1150
              ELSE analyzer.first_pass_mod[r] = MS

C29_Witness ==
    /\ Adjusted
    /\ analyzer.ast > 140
    /\ analyzer.liver_func_mod = 1200
    /\ analyzer.body_fat > 85 /\ analyzer.fat_mod = 1500
    /\ analyzer.self.bmi > 5200 /\ analyzer.bmi_mod = 1300
    /\ analyzer.age > 100 /\ analyzer.first_pass_mod["Oral"] = 1150
    /\ analyzer.first_pass_mod["Injection"] = MS

\* C30: the outcome of calculate_calibration_factor is the same for any
\* two current-factor mappings that differ only in the target route's
\* entry, so after the returned factor is stored for the target route the
\* estimate on the same schedule and lab record returns the same factor.
FactorProbes == {<<>>, <<FACTOR_MIN>>, <<300>>}
\* the mapping with the target route's entry removed (<<>>) or set to v[1]
WithTargetFactor(current_factors, target_route, v) ==
    [r \in (DOMAIN current_factors \ {target_route})
            \cup (IF v = <<>> THEN {} ELSE {target_route}) |->
        IF r = target_route THEN v[1] ELSE current_factors[r]]

C30_TargetFactorIgnored ==
    /\ CalFinished =>
          \A v \in FactorProbes :
              CalculateCalibrationFactor(
                  DefaultAnalyzer, cal.schedule_list, cal.lab_day, cal.lab_value,
                  cal.target_route,
                  WithTargetFactor(cal.current_factors, cal.target_route, v)) = cal.r
    /\ cal.pc = "reapplied" =>
          /\ cal.current_factors[cal.target_route] = cal.first.factor
          /\ cal.r = cal.first

C30_Witness ==
    /\ cal.pc = "reapplied"
    /\ cal.first.factor \notin {FACTOR_NEUTRAL, FACTOR_MIN, FACTOR_MAX}
    /\ cal.first.conc_other > 0
    /\ cal.r.factor = cal.first.factor

====
